---- MODULE Spec2Model ----
(***************************************************************************)
(* Work-Order-Timeline: the timeline coordinate & range engine             *)
(* (TimelineUtilService), the work-order store (WorkOrderService), the     *)
(* create/edit panel (WorkOrderPanel) and the modal service (ModalService) *)
(* as state machines.                                                      *)
(*                                                                         *)
(* A JavaScript Date is modelled by its time value in ticks: an integer    *)
(* number of days since 1970-01-01 times TicksPerDay, plus the time of day *)
(* in ticks.  Local time is taken to have a fixed offset (no daylight      *)
(* saving), so that every local day has TicksPerDay ticks.                 *)
(***************************************************************************)
EXTENDS Integers, Sequences, FiniteSets, TLC

\* ------------------------------------------------------------------------
\* Bounds of the model
\* ------------------------------------------------------------------------

\* The timeline handles at most this many scroll events that extend the range.
MaxExtensions == 2

\* addOrder is called at most this many times on the service on its own.
MaxAdds == 2

\* Resolution of the time of day: a day has this many ticks.
TicksPerDay == 2

\* generateColumns is explored for ranges of up to this many periods of the
\* zoom level (a month counted as 31 days).
MaxSpan == 2

\* extendLeft / extendRight are explored for counts 0..MaxCount.
MaxCount == 3

\* ModalService.open is called at most this many times.
MaxOpens == 2

\* At most this many close timers (setTimeout callbacks) are pending at once.
MaxTimers == 2

\* ------------------------------------------------------------------------
\* ECMAScript Date arithmetic (the built-ins the services call)
\* ------------------------------------------------------------------------

ZoomLevels == {"day", "week", "month"}

\* Days since 1970-01-01 of the proleptic Gregorian date y-m-d, m in 1..12.
DaysFromCivil(y, m, d) ==
  LET yy  == IF m <= 2 THEN y - 1 ELSE y
      era == yy \div 400
      yoe == yy - era * 400
      mp  == IF m > 2 THEN m - 3 ELSE m + 9
      doy == ((153 * mp + 2) \div 5) + d - 1
      doe == yoe * 365 + (yoe \div 4) - (yoe \div 100) + doy
  IN  era * 146097 + doe - 719468

\* The Gregorian date [year, month (0..11, as getMonth), date] of a day number.
CivilFromDays(z) ==
  LET zz  == z + 719468
      era == zz \div 146097
      doe == zz - era * 146097
      yoe == (doe - (doe \div 1460) + (doe \div 36524) - (doe \div 146096)) \div 365
      doy == doe - (365 * yoe + (yoe \div 4) - (yoe \div 100))
      mp  == (5 * doy + 2) \div 153
      d   == doy - ((153 * mp + 2) \div 5) + 1
      m   == IF mp < 10 THEN mp + 3 ELSE mp - 9
      y   == yoe + era * 400 + (IF m <= 2 THEN 1 ELSE 0)
  IN  [year |-> y, month |-> m - 1, date |-> d]

\* ECMAScript MakeDay: month may lie outside 0..11 and date outside the month;
\* both carry over (Jan 31 + 1 month = "Feb 31" = Mar 3, or Mar 2 in a leap year).
MakeDay(year, month, date) ==
  DaysFromCivil(year + (month \div 12), (month % 12) + 1, 1) + date - 1

DayOf(t) == t \div TicksPerDay
TimeOf(t) == t % TicksPerDay
MakeDate(day, time) == day * TicksPerDay + time

getFullYear(t) == CivilFromDays(DayOf(t)).year
getMonth(t) == CivilFromDays(DayOf(t)).month
getDate(t) == CivilFromDays(DayOf(t)).date
\* 1970-01-01 was a Thursday (4); 0 is Sunday.
getDay(t) == (DayOf(t) + 4) % 7

setMonth(t, month) ==
  LET c == CivilFromDays(DayOf(t))
  IN  MakeDate(MakeDay(c.year, month, c.date), TimeOf(t))

setDate(t, date) ==
  LET c == CivilFromDays(DayOf(t))
  IN  MakeDate(MakeDay(c.year, c.month, date), TimeOf(t))

setHoursZero(t) == MakeDate(DayOf(t), 0)

\* new Date(year, monthIndex, day): local midnight.
NewDate(year, month, date) == MakeDate(MakeDay(year, month, date), 0)

\* ------------------------------------------------------------------------
\* Numbers
\* ------------------------------------------------------------------------

\* A JavaScript number that need not be an integer is modelled by the exact
\* fraction num / den, den > 0 (the rounding of the floating-point operations
\* is left out); two fractions are equal when their lowest terms are, and
\* are ordered by cross-multiplication.  The results of a division by zero
\* have den = 0: 1/0 is Infinity, -1/0 is -Infinity and 0/0 is NaN; the
\* operations below give them the results of the JavaScript ones.
RECURSIVE GCD(_, _)
GCD(a, b) == IF b = 0 THEN a ELSE GCD(b, a % b)
Abs(n) == IF n < 0 THEN 0 - n ELSE n
\* num / den in lowest terms.
Frac(num, den) ==
  IF den = 0
  THEN [num |-> IF num > 0 THEN 1 ELSE IF num < 0 THEN 0 - 1 ELSE 0, den |-> 0]
  ELSE LET g == GCD(Abs(num), Abs(den))
           sign == IF den < 0 THEN 0 - 1 ELSE 1
       IN  [num |-> sign * (num \div g), den |-> sign * (den \div g)]
Zero == Frac(0, 1)
FracAdd(a, b) == Frac(a.num * b.den + b.num * a.den, a.den * b.den)
FracMul(a, b) == Frac(a.num * b.num, a.den * b.den)
FracDiv(a, b) == Frac(a.num * b.den, a.den * b.num)
FracEq(a, b) == Frac(a.num, a.den) = Frac(b.num, b.den)
FracLess(a, b) == a.num * b.den < b.num * a.den
\* Math.max
FracMax(a, b) == IF FracLess(a, b) THEN b ELSE a

\* ------------------------------------------------------------------------
\* TimelineUtilService
\* ------------------------------------------------------------------------

advanceCursor(date, zoom) ==
  CASE zoom = "month" -> setMonth(date, getMonth(date) + 1)
    [] zoom = "week"  -> setDate(date, getDate(date) + 7)
    [] zoom = "day"   -> setDate(date, getDate(date) + 1)

\* retreatCursor with the week step off by one day.
retreatCursor_WeekSix(date, zoom) ==
  CASE zoom = "month" -> setMonth(date, getMonth(date) - 1)
    [] zoom = "week"  -> setDate(date, getDate(date) - 6)
    [] zoom = "day"   -> setDate(date, getDate(date) - 1)

\* retreatCursor taking a month to be thirty days.
retreatCursor_ThirtyDays(date, zoom) ==
  CASE zoom = "month" -> setDate(date, getDate(date) - 30)
    [] zoom = "week"  -> setDate(date, getDate(date) - 7)
    [] zoom = "day"   -> setDate(date, getDate(date) - 1)

retreatCursor(date, zoom) ==
  CASE zoom = "month" -> setMonth(date, getMonth(date) - 1)
    [] zoom = "week"  -> setDate(date, getDate(date) - 7)
    [] zoom = "day"   -> setDate(date, getDate(date) - 1)

\* The for loops of extendLeft and extendRight: loop holds the date copy being
\* mutated and the loop counter i.
RECURSIVE extendLeftLoop(_, _, _)
extendLeftLoop(loop, zoom, count) ==
  IF loop.i < count
  THEN extendLeftLoop([date |-> retreatCursor(loop.date, zoom), i |-> loop.i + 1],
                      zoom, count)
  ELSE loop.date

extendLeft_Inclusive(currentStart, zoom, count) ==
  extendLeftLoop([date |-> currentStart, i |-> 0], zoom, count + 1)

extendLeft(currentStart, zoom, count) ==
  extendLeftLoop([date |-> currentStart, i |-> 0], zoom, count)

RECURSIVE extendRightLoop(_, _, _)
extendRightLoop(loop, zoom, count) ==
  IF loop.i < count
  THEN extendRightLoop([date |-> advanceCursor(loop.date, zoom), i |-> loop.i + 1],
                       zoom, count)
  ELSE loop.date

extendRight(currentEnd, zoom, count) ==
  extendRightLoop([date |-> currentEnd, i |-> 0], zoom, count)

\* toLocaleDateString('en-US', ...): the label is modelled by the fields it shows.
formatColumnLabel(date, zoom) ==
  CASE zoom = "month" -> <<getMonth(date), getFullYear(date)>>
    [] zoom = "week"  ->
         <<getMonth(date), getDate(date), getDate(setDate(date, getDate(date) + 6))>>
    [] zoom = "day"   -> <<getMonth(date), getDate(date)>>

isCurrentPeriod(date, now, zoom) ==
  CASE zoom = "month" ->
         getFullYear(date) = getFullYear(now) /\ getMonth(date) = getMonth(now)
    [] zoom = "week"  ->
         LET weekEnd == setDate(date, getDate(date) + 6)
         IN  now >= date /\ now <= weekEnd
    [] zoom = "day"   ->
         /\ getFullYear(date) = getFullYear(now)
         /\ getMonth(date) = getMonth(now)
         /\ getDate(date) = getDate(now)

\* The while loop of generateColumns: cursor is the mutated date cursor and
\* columns the array built so far.  The loop is evaluated in blocks of at
\* most `steps` iterations (the evaluator's stack bounds the depth of a
\* recursion); a block returns the loop's state, and the next block
\* continues from it, so the iterations are those of the single loop.
RECURSIVE generateColumnsBlock(_, _, _, _, _, _)
generateColumnsBlock(cursor, rangeEnd, zoom, now, columns, steps) ==
  IF steps > 0 /\ cursor <= rangeEnd
  THEN generateColumnsBlock(
         advanceCursor(cursor, zoom), rangeEnd, zoom, now,
         Append(columns, [label |-> formatColumnLabel(cursor, zoom),
                          date |-> cursor,
                          isCurrentPeriod |-> isCurrentPeriod(cursor, now, zoom)]),
         steps - 1)
  ELSE [cursor |-> cursor, columns |-> columns]

RECURSIVE generateColumnsLoop(_, _, _, _, _)
generateColumnsLoop(cursor, rangeEnd, zoom, now, columns) ==
  IF cursor <= rangeEnd
  THEN LET block == generateColumnsBlock(cursor, rangeEnd, zoom, now, columns, 24)
       IN  generateColumnsLoop(block.cursor, rangeEnd, zoom, now, block.columns)
  ELSE columns

\* generateColumns advancing the cursor before the first column is pushed.
generateColumns_AdvanceFirst(rangeStart, rangeEnd, zoom, now) ==
  generateColumnsLoop(advanceCursor(rangeStart, zoom), rangeEnd, zoom, now, <<>>)

\* now is the value of new Date() read by the call.
generateColumns(rangeStart, rangeEnd, zoom, now) ==
  generateColumnsLoop(rangeStart, rangeEnd, zoom, now, <<>>)

\* getInitialRange with the month range's start moved forward instead of back.
getInitialRange_StartForward(zoom, now) ==
  CASE zoom = "month" ->
         [start |-> setDate(setMonth(now, getMonth(now) + 12), 1),
          end   |-> setDate(setMonth(now, getMonth(now) + 12), 1)]
    [] zoom = "week"  ->
         LET s1        == setDate(now, getDate(now) - (7 * 26))
             dayOffset == getDay(s1)
             s2        == setDate(s1, getDate(s1) - dayOffset)
         IN  [start |-> setHoursZero(s2),
              end   |-> setDate(now, getDate(now) + (7 * 52))]
    [] zoom = "day"   ->
         LET e1 == setDate(now, getDate(now) + 90)
         IN  [start |-> setDate(now, getDate(now) - 90),
              end   |-> setDate(e1, getDate(e1) + 180)]

\* getInitialRange without the two alignments of the start: setDate(1) at
\* month zoom and the step back to the first day of the week at week zoom.
getInitialRange_Unaligned(zoom, now) ==
  CASE zoom = "month" ->
         [start |-> setMonth(now, getMonth(now) - 12),
          end   |-> setDate(setMonth(now, getMonth(now) + 12), 1)]
    [] zoom = "week"  ->
         LET s1 == setDate(now, getDate(now) - (7 * 26))
         IN  [start |-> setHoursZero(s1),
              end   |-> setDate(now, getDate(now) + (7 * 52))]
    [] zoom = "day"   ->
         LET e1 == setDate(now, getDate(now) + 90)
         IN  [start |-> setDate(now, getDate(now) - 90),
              end   |-> setDate(e1, getDate(e1) + 180)]

getInitialRange(zoom, now) ==
  CASE zoom = "month" ->
         [start |-> setDate(setMonth(now, getMonth(now) - 12), 1),
          end   |-> setDate(setMonth(now, getMonth(now) + 12), 1)]
    [] zoom = "week"  ->
         LET s1        == setDate(now, getDate(now) - (7 * 26))
             dayOffset == getDay(s1)
             s2        == setDate(s1, getDate(s1) - dayOffset)
         IN  [start |-> setHoursZero(s2),
              end   |-> setDate(now, getDate(now) + (7 * 52))]
    [] zoom = "day"   ->
         LET e1 == setDate(now, getDate(now) + 90)
         IN  [start |-> setDate(now, getDate(now) - 90),
              end   |-> setDate(e1, getDate(e1) + 180)]

getExtensionCount(zoom) ==
  CASE zoom = "month" -> 6
    [] zoom = "week"  -> 12
    [] zoom = "day"   -> 30

\* ------------------------------------------------------------------------
\* TimelineUtilService on Date objects
\* ------------------------------------------------------------------------
\* A Date is an object: two names can hold the same object, and setMonth and
\* setDate change the object they are called on.  heap[r] is the time value
\* of the Date object with reference r.  The operators below replay
\* extendLeft, extendRight and generateColumns on such a heap, with the
\* references the code holds, and return the heap the call leaves.

\* new Date(value): the heap with the new object; its reference is the
\* length of the new heap.
newDate(heap, value) == Append(heap, value)

\* advanceCursor(date, zoom) and retreatCursor(date, zoom) change the object.
advanceCursorOnHeap(heap, date, zoom) ==
  [heap EXCEPT ![date] = advanceCursor(heap[date], zoom)]

retreatCursorOnHeap(heap, date, zoom) ==
  [heap EXCEPT ![date] = retreatCursor(heap[date], zoom)]

\* The weekEnd object of formatColumnLabel and of isCurrentPeriod at week
\* zoom: a copy of date, moved six days on.  Other zooms allocate nothing.
weekEndOnHeap(heap, date, zoom) ==
  IF zoom = "week"
  THEN LET copied  == newDate(heap, heap[date])
           weekEnd == Len(copied)
       IN  [copied EXCEPT ![weekEnd] = setDate(copied[weekEnd], getDate(copied[weekEnd]) + 6)]
  ELSE heap

\* The for loop of extendLeft on the object date.
RECURSIVE extendLeftLoopOnHeap(_, _, _, _)
extendLeftLoopOnHeap(loop, date, zoom, count) ==
  IF loop.i < count
  THEN extendLeftLoopOnHeap([heap |-> retreatCursorOnHeap(loop.heap, date, zoom), i |-> loop.i + 1], date, zoom, count)
  ELSE loop.heap

\* extendLeft working on the object it was passed (const date = currentStart).
extendLeftOnHeap_InPlace(heap, currentStart, zoom, count) ==
  [heap     |-> extendLeftLoopOnHeap([heap |-> heap, i |-> 0], currentStart, zoom, count),
   returned |-> <<currentStart>>]

\* extendLeft(currentStart, zoom, count), currentStart a reference: the heap
\* after the call and the reference returned.
extendLeftOnHeap(heap, currentStart, zoom, count) ==
  LET copied == newDate(heap, heap[currentStart])
      date   == Len(copied)
  IN  [heap     |-> extendLeftLoopOnHeap([heap |-> copied, i |-> 0], date, zoom, count),
       returned |-> <<date>>]

RECURSIVE extendRightLoopOnHeap(_, _, _, _)
extendRightLoopOnHeap(loop, date, zoom, count) ==
  IF loop.i < count
  THEN extendRightLoopOnHeap([heap |-> advanceCursorOnHeap(loop.heap, date, zoom), i |-> loop.i + 1], date, zoom, count)
  ELSE loop.heap

extendRightOnHeap(heap, currentEnd, zoom, count) ==
  LET copied == newDate(heap, heap[currentEnd])
      date   == Len(copied)
  IN  [heap     |-> extendRightLoopOnHeap([heap |-> copied, i |-> 0], date, zoom, count),
       returned |-> <<date>>]

\* The while loop of generateColumns on the object cursor.  A column's date
\* is the reference of its own object, new Date(cursor); the label and the
\* flag are computed from the cursor's value, on weekEnd copies.
RECURSIVE generateColumnsLoopOnHeap(_, _, _, _, _)
generateColumnsLoopOnHeap(loop, cursor, rangeEnd, zoom, now) ==
  IF loop.heap[cursor] <= loop.heap[rangeEnd]
  THEN LET labelled == weekEndOnHeap(loop.heap, cursor, zoom)
           dated    == newDate(labelled, labelled[cursor])
           flagged  == weekEndOnHeap(dated, cursor, zoom)
           column   == [label |-> formatColumnLabel(loop.heap[cursor], zoom),
                        date |-> Len(dated),
                        isCurrentPeriod |-> isCurrentPeriod(loop.heap[cursor], loop.heap[now], zoom)]
       IN  generateColumnsLoopOnHeap([heap |-> advanceCursorOnHeap(flagged, cursor, zoom), columns |-> Append(loop.columns, column)], cursor, rangeEnd, zoom, now)
  ELSE loop

\* generateColumns(rangeStart, rangeEnd, zoom), the two dates references and
\* clockValue the value of new Date(): the heap after the call and the
\* columns returned.
generateColumnsOnHeap(heap, rangeStart, rangeEnd, zoom, clockValue) ==
  LET copied == newDate(heap, heap[rangeStart])
      cursor == Len(copied)
      read   == newDate(copied, clockValue)
      now    == Len(read)
  IN  generateColumnsLoopOnHeap([heap |-> read, columns |-> <<>>], cursor, rangeEnd, zoom, now)

\* ------------------------------------------------------------------------
\* TimelineUtilService: the bar position
\* ------------------------------------------------------------------------

\* getLocalTime of a Date: local midnight of its local calendar date.
getLocalTime(dateInput) ==
  NewDate(getFullYear(dateInput), getMonth(dateInput), getDate(dateInput))

\* new Date(iso): the date string is parsed as midnight UTC; local time is
\* taken to be UTC.
ParseIso(iso) == MakeDate(DaysFromCivil(iso[1], iso[2], iso[3]), 0)

\* 1000 * 60 * 60 * 24 milliseconds, in ticks.
millisecondsPerDay == TicksPerDay

\* The literals 30.44 and 1.5.
averageMonthDays == Frac(3044, 100)
minimumWidth == Frac(15, 10)

\* calculateBarPosition with the left edge clamped to the range start.
calculateBarPosition_ClampedLeft(startDateIso, endDateIso, timelineRangeStartDate, totalTimelineDurationMs, zoom, columns) ==
  LET orderStartTimestamp == getLocalTime(ParseIso(startDateIso))
      orderEndTimestamp == getLocalTime(ParseIso(endDateIso))
      timelineStartTimestamp == getLocalTime(timelineRangeStartDate)
  IN  [left |-> FracMax(Zero,
                        FracMul(Frac(orderStartTimestamp - timelineStartTimestamp,
                                     totalTimelineDurationMs), Frac(100, 1))),
       width |-> FracMul(Frac(orderEndTimestamp - orderStartTimestamp,
                              totalTimelineDurationMs), Frac(100, 1))]

\* calculateBarPosition taking every month to have thirty days.
calculateBarPosition_ThirtyDayMonth(startDateIso, endDateIso, timelineRangeStartDate, totalTimelineDurationMs, zoom, columns) ==
  LET orderStartTimestamp == getLocalTime(ParseIso(startDateIso))
      orderEndTimestamp == getLocalTime(ParseIso(endDateIso))
      timelineStartTimestamp == getLocalTime(timelineRangeStartDate)
  IN  IF zoom # "month"
      THEN LET leftPercentage ==
                 FracMul(Frac(orderStartTimestamp - timelineStartTimestamp,
                              totalTimelineDurationMs), Frac(100, 1))
               widthPercentage ==
                 FracMul(Frac(orderEndTimestamp - orderStartTimestamp,
                              totalTimelineDurationMs), Frac(100, 1))
           IN  [left |-> leftPercentage, width |-> widthPercentage]
      ELSE LET rangeStartObject == timelineRangeStartDate
               orderStartObject == ParseIso(startDateIso)
               yearsDifference ==
                 getFullYear(orderStartObject) - getFullYear(rangeStartObject)
               monthsDifference ==
                 (yearsDifference * 12)
                   + (getMonth(orderStartObject) - getMonth(rangeStartObject))
               totalDaysInStartingMonth == 30
               dayOfMonthIndex == getDate(orderStartObject) - 1
               progressWithinMonthRatio ==
                 Frac(dayOfMonthIndex, totalDaysInStartingMonth)
               totalColumnCount == Len(columns)
               finalLeftPercentage ==
                 FracMul(FracDiv(FracAdd(Frac(monthsDifference, 1),
                                         progressWithinMonthRatio),
                                 Frac(totalColumnCount, 1)),
                         Frac(100, 1))
               totalOrderDurationDays ==
                 Frac(orderEndTimestamp - orderStartTimestamp, millisecondsPerDay)
               finalWidthPercentage ==
                 FracMul(FracDiv(totalOrderDurationDays,
                                 FracMul(Frac(totalColumnCount, 1), averageMonthDays)),
                         Frac(100, 1))
           IN  [left |-> finalLeftPercentage,
                width |-> FracMax(finalWidthPercentage, minimumWidth)]

\* calculateBarPosition without the minimum width of month mode.
calculateBarPosition_NoFloor(startDateIso, endDateIso, timelineRangeStartDate, totalTimelineDurationMs, zoom, columns) ==
  LET orderStartTimestamp == getLocalTime(ParseIso(startDateIso))
      orderEndTimestamp == getLocalTime(ParseIso(endDateIso))
      timelineStartTimestamp == getLocalTime(timelineRangeStartDate)
  IN  IF zoom # "month"
      THEN LET leftPercentage ==
                 FracMul(Frac(orderStartTimestamp - timelineStartTimestamp,
                              totalTimelineDurationMs), Frac(100, 1))
               widthPercentage ==
                 FracMul(Frac(orderEndTimestamp - orderStartTimestamp,
                              totalTimelineDurationMs), Frac(100, 1))
           IN  [left |-> leftPercentage, width |-> widthPercentage]
      ELSE LET rangeStartObject == timelineRangeStartDate
               orderStartObject == ParseIso(startDateIso)
               yearsDifference ==
                 getFullYear(orderStartObject) - getFullYear(rangeStartObject)
               monthsDifference ==
                 (yearsDifference * 12)
                   + (getMonth(orderStartObject) - getMonth(rangeStartObject))
               totalDaysInStartingMonth ==
                 getDate(NewDate(getFullYear(orderStartObject),
                                 getMonth(orderStartObject) + 1, 0))
               dayOfMonthIndex == getDate(orderStartObject) - 1
               progressWithinMonthRatio ==
                 Frac(dayOfMonthIndex, totalDaysInStartingMonth)
               totalColumnCount == Len(columns)
               finalLeftPercentage ==
                 FracMul(FracDiv(FracAdd(Frac(monthsDifference, 1),
                                         progressWithinMonthRatio),
                                 Frac(totalColumnCount, 1)),
                         Frac(100, 1))
               totalOrderDurationDays ==
                 Frac(orderEndTimestamp - orderStartTimestamp, millisecondsPerDay)
               finalWidthPercentage ==
                 FracMul(FracDiv(totalOrderDurationDays,
                                 FracMul(Frac(totalColumnCount, 1), averageMonthDays)),
                         Frac(100, 1))
           IN  [left |-> finalLeftPercentage,
                width |-> finalWidthPercentage]

\* Timestamps and totalTimelineDurationMs are in ticks; totalTimelineDurationMs
\* and columns.length are not 0.
calculateBarPosition(startDateIso, endDateIso, timelineRangeStartDate, totalTimelineDurationMs, zoom, columns) ==
  LET orderStartTimestamp == getLocalTime(ParseIso(startDateIso))
      orderEndTimestamp == getLocalTime(ParseIso(endDateIso))
      timelineStartTimestamp == getLocalTime(timelineRangeStartDate)
  IN  IF zoom # "month"
      THEN LET leftPercentage ==
                 FracMul(Frac(orderStartTimestamp - timelineStartTimestamp,
                              totalTimelineDurationMs), Frac(100, 1))
               widthPercentage ==
                 FracMul(Frac(orderEndTimestamp - orderStartTimestamp,
                              totalTimelineDurationMs), Frac(100, 1))
           IN  [left |-> leftPercentage, width |-> widthPercentage]
      ELSE LET rangeStartObject == timelineRangeStartDate
               orderStartObject == ParseIso(startDateIso)
               yearsDifference ==
                 getFullYear(orderStartObject) - getFullYear(rangeStartObject)
               monthsDifference ==
                 (yearsDifference * 12)
                   + (getMonth(orderStartObject) - getMonth(rangeStartObject))
               totalDaysInStartingMonth ==
                 getDate(NewDate(getFullYear(orderStartObject),
                                 getMonth(orderStartObject) + 1, 0))
               dayOfMonthIndex == getDate(orderStartObject) - 1
               progressWithinMonthRatio ==
                 Frac(dayOfMonthIndex, totalDaysInStartingMonth)
               totalColumnCount == Len(columns)
               finalLeftPercentage ==
                 FracMul(FracDiv(FracAdd(Frac(monthsDifference, 1),
                                         progressWithinMonthRatio),
                                 Frac(totalColumnCount, 1)),
                         Frac(100, 1))
               totalOrderDurationDays ==
                 Frac(orderEndTimestamp - orderStartTimestamp, millisecondsPerDay)
               finalWidthPercentage ==
                 FracMul(FracDiv(totalOrderDurationDays,
                                 FracMul(Frac(totalColumnCount, 1), averageMonthDays)),
                         Frac(100, 1))
           IN  [left |-> finalLeftPercentage,
                width |-> FracMax(finalWidthPercentage, minimumWidth)]


\* ------------------------------------------------------------------------
\* WorkOrderService
\* ------------------------------------------------------------------------

\* An ISO date string 'YYYY-MM-DD' is modelled by the tuple of its three
\* zero-padded fields; an NgbDateStruct by a record [year, month (1..12), day].
\* new Date(iso).getTime(): the string is parsed as midnight UTC; local time is
\* taken to be UTC.
IsoTime(iso) == MakeDate(DaysFromCivil(iso[1], iso[2], iso[3]), 0)

NullDateStruct == [year |-> 0, month |-> 0, day |-> 0]
NoId == 0
NoOrder ==
  [id |-> NoId, name |-> "", workCenterId |-> "", startDate |-> <<0, 0, 0>>,
   endDate |-> <<0, 0, 0>>, status |-> ""]

\* The work centers of the model: the first two of DEFAULT_WORK_CENTERS.
WorkCenterIds == {"wc1", "wc2"}

\* The seed of the model: the first order of SEED_ORDERS ('wo1').
SEED_ORDERS ==
  << [id |-> 1, name |-> "Intrix Ltd", workCenterId |-> "wc1",
      startDate |-> <<2026, 1, 15>>, endDate |-> <<2026, 3, 20>>,
      status |-> "complete"] >>

\* localStorage['work-orders'], as getItem returns it: raw is "null" for an
\* absent key, "" for the empty text, "{" for a text JSON.parse throws on, and
\* "json" for the JSON text of a list of orders, modelled by the list it
\* parses to (the orders hold strings only, which JSON.stringify and
\* JSON.parse give back as they are).
NoItem == [present |-> FALSE, raw |-> "null", value |-> <<>>]
EmptyItem == [present |-> TRUE, raw |-> "", value |-> <<>>]
CorruptItem == [present |-> TRUE, raw |-> "{", value |-> <<>>]
persist(orders) == [present |-> TRUE, raw |-> "json", value |-> orders]

\* loadOrders: the orders and the storage after the call.  An empty list is
\* stored as the text '[]', which is truthy, so it is parsed and returned.
\* loadOrders restoring the seed orders when the stored list is empty.
loadOrders_SeedWhenEmpty(item) ==
  IF item.raw = "json" /\ item.value # <<>>
  THEN [orders |-> item.value, storage |-> item]
  ELSE IF item.raw = "{"
  THEN [orders |-> SEED_ORDERS, storage |-> item]
  ELSE [orders |-> SEED_ORDERS, storage |-> persist(SEED_ORDERS)]

\* `if (raw)` is false for null and for the empty text.
loadOrders(item) ==
  IF item.raw \notin {"null", ""}
  THEN IF item.raw = "json"
       THEN [orders |-> item.value, storage |-> item]
       ELSE [orders |-> SEED_ORDERS, storage |-> item]
  ELSE [orders |-> SEED_ORDERS, storage |-> persist(SEED_ORDERS)]

\* orders().filter(wordOrder => wordOrder.workCenterId === workCenterId)
RECURSIVE getOrdersForWorkCenter(_, _)
getOrdersForWorkCenter(orders, workCenterId) ==
  IF orders = <<>> THEN <<>>
  ELSE IF Head(orders).workCenterId = workCenterId
       THEN <<Head(orders)>> \o getOrdersForWorkCenter(Tail(orders), workCenterId)
       ELSE getOrdersForWorkCenter(Tail(orders), workCenterId)

\* hasOverlap with the closed test (<=, >=) in place of the half-open one.
hasOverlap_Closed(orders, workCenterId, newOrderStartDate, newOrderEndDate, excludeOrderId) ==
  LET newOrderStartTimestamp == IsoTime(newOrderStartDate)
      newOrderEndTimestamp == IsoTime(newOrderEndDate)
      existingOrdersForWorkCenter == getOrdersForWorkCenter(orders, workCenterId)
  IN  \E i \in 1..Len(existingOrdersForWorkCenter) :
        LET existingOrder == existingOrdersForWorkCenter[i]
        IN  /\ ~(excludeOrderId # NoId /\ existingOrder.id = excludeOrderId)
            /\ newOrderStartTimestamp <= IsoTime(existingOrder.endDate)
            /\ newOrderEndTimestamp >= IsoTime(existingOrder.startDate)

\* hasOverlap looking at the orders of every work center.
hasOverlap_AnyCenter(orders, workCenterId, newOrderStartDate, newOrderEndDate, excludeOrderId) ==
  LET newOrderStartTimestamp == IsoTime(newOrderStartDate)
      newOrderEndTimestamp == IsoTime(newOrderEndDate)
  IN  \E i \in 1..Len(orders) :
        LET existingOrder == orders[i]
        IN  /\ ~(excludeOrderId # NoId /\ existingOrder.id = excludeOrderId)
            /\ newOrderStartTimestamp < IsoTime(existingOrder.endDate)
            /\ newOrderEndTimestamp > IsoTime(existingOrder.startDate)

\* excludeOrderId = NoId is the omitted (undefined) argument.
hasOverlap(orders, workCenterId, newOrderStartDate, newOrderEndDate, excludeOrderId) ==
  LET newOrderStartTimestamp == IsoTime(newOrderStartDate)
      newOrderEndTimestamp == IsoTime(newOrderEndDate)
      existingOrdersForWorkCenter == getOrdersForWorkCenter(orders, workCenterId)
  IN  \E i \in 1..Len(existingOrdersForWorkCenter) :
        LET existingOrder == existingOrdersForWorkCenter[i]
            startsBeforeExistingEnds ==
              newOrderStartTimestamp < IsoTime(existingOrder.endDate)
            endsAfterExistingStarts ==
              newOrderEndTimestamp > IsoTime(existingOrder.startDate)
        IN  /\ ~(excludeOrderId # NoId /\ existingOrder.id = excludeOrderId)
            /\ startsBeforeExistingEnds
            /\ endsAfterExistingStarts

\* crypto.randomUUID(): the n-th identifier generated, distinct from the seed's.
randomUUID(n) == 100 + n

\* addOrder: {...newOrderData, id: generatedOrderId} appended.
addOrder(orders, newOrderData, generatedOrderId) ==
  Append(orders, [newOrderData EXCEPT !.id = generatedOrderId])

\* updateOrder replacing every order of the updated order's work center.
updateOrder_ByWorkCenter(orders, updatedOrder) ==
  [i \in 1..Len(orders) |->
     IF orders[i].id = updatedOrder.id \/ orders[i].workCenterId = updatedOrder.workCenterId
     THEN updatedOrder ELSE orders[i]]

\* updateOrder: the orders whose id matches are replaced.
updateOrder(orders, updatedOrder) ==
  [i \in 1..Len(orders) |->
     IF orders[i].id = updatedOrder.id THEN updatedOrder ELSE orders[i]]

\* deleteOrder: currentOrders.filter(existingOrder => existingOrder.id !== id)
RECURSIVE deleteOrder(_, _)
deleteOrder(orders, orderIdToDelete) ==
  IF orders = <<>> THEN <<>>
  ELSE IF Head(orders).id # orderIdToDelete
       THEN <<Head(orders)>> \o deleteOrder(Tail(orders), orderIdToDelete)
       ELSE deleteOrder(Tail(orders), orderIdToDelete)

\* ------------------------------------------------------------------------
\* WorkOrderPanel
\* ------------------------------------------------------------------------

convertToNgbDateStruct(date) ==
  [year |-> getFullYear(date), month |-> getMonth(date) + 1, day |-> getDate(date)]

formatToIsoDateString(struct) == <<struct.year, struct.month, struct.day>>

\* TRUE when the validator reports no error.
dateOrderValidator(form) ==
  IF form.startDate = NullDateStruct \/ form.endDate = NullDateStruct THEN TRUE
  ELSE LET startDate == NewDate(form.startDate.year, form.startDate.month - 1,
                                form.startDate.day)
           endDate == NewDate(form.endDate.year, form.endDate.month - 1,
                              form.endDate.day)
       IN  endDate >= startDate

\* editingOrder?.workCenterId || this.workCenterId
PanelWorkCenterId(editingOrder, workCenterId) ==
  IF editingOrder.workCenterId # "" THEN editingOrder.workCenterId ELSE workCenterId

\* TRUE when the validator reports no error.
validateWorkCenterOverlap(editingOrder, workCenterId, form, orders) ==
  LET wc == PanelWorkCenterId(editingOrder, workCenterId)
  IN  IF wc = "" \/ form.startDate = NullDateStruct \/ form.endDate = NullDateStruct
      THEN TRUE
      ELSE ~hasOverlap(orders, wc, formatToIsoDateString(form.startDate),
                       formatToIsoDateString(form.endDate), editingOrder.id)

\* The status of the form group after a value change: the required validators
\* of the four controls and the two group validators, run against the store
\* as it is at that moment.
FormStatus(editingOrder, workCenterId, form, orders) ==
  IF /\ form.name # ""
     /\ form.status # ""
     /\ form.startDate # NullDateStruct
     /\ form.endDate # NullDateStruct
     /\ dateOrderValidator(form)
     /\ validateWorkCenterOverlap(editingOrder, workCenterId, form, orders)
  THEN "VALID" ELSE "INVALID"

\* initializeForm: the form's value after ngOnInit.
initializeForm(editingOrder, initialStartDate) ==
  IF editingOrder.id # NoId
  THEN [name |-> editingOrder.name,
        status |-> editingOrder.status,
        startDate |-> convertToNgbDateStruct(IsoTime(editingOrder.startDate)),
        endDate |-> convertToNgbDateStruct(IsoTime(editingOrder.endDate))]
  ELSE [name |-> "",
        status |-> "open",
        startDate |-> convertToNgbDateStruct(initialStartDate),
        endDate |-> convertToNgbDateStruct(
                      setDate(initialStartDate, getDate(initialStartDate) + 7))]

\* The payload onSubmit builds: {...editingOrder, workCenterId, name, status,
\* startDate, endDate}; in create mode it has no id.
SubmitPayload(editingOrder, workCenterId, form) ==
  [id |-> editingOrder.id,
   name |-> form.name,
   workCenterId |-> PanelWorkCenterId(editingOrder, workCenterId),
   startDate |-> formatToIsoDateString(form.startDate),
   endDate |-> formatToIsoDateString(form.endDate),
   status |-> form.status]

\* ------------------------------------------------------------------------
\* State
\* ------------------------------------------------------------------------

VARIABLES
  \* A call of a TimelineUtilService function: the operation, its arguments,
  \* the value of new Date() it read (clock) and what it returned.
  op, argZoom, argStart, argEnd, argCount, clock,
  retDate, retRange, retColumns, retFlag,
  \* A call of calculateBarPosition: its arguments and the position returned.
  barCall,
  \* The Date objects of a call of extendLeft, extendRight or generateColumns:
  \* the caller's objects before the call, every object after it, and the
  \* objects returned.
  heapCall,
  \* A call of WorkOrderService.hasOverlap: the store it ran on, its
  \* arguments and its result.
  overlapCall,
  \* WorkOrderService: the orders signal, localStorage['work-orders'] and the
  \* number of identifiers generated so far.
  orders, storage, uuidCount,
  \* ModalService: modalRef and currentSubject (0 is null, otherwise the number
  \* of the open call that created them), and every Subject created by open,
  \* with its subscriber and what it has emitted.
  modalRef, currentSubject, subjects,
  \* The WorkOrderPanel instance held by modalRef, and the pending close
  \* timers (setTimeout callbacks, all of 250 ms, so they fire in order).
  panel, timers,
  \* Timeline: the zoom input, the visible range, the columns, the lifecycle
  \* of the component and the number of scroll events that extended the range.
  timelineZoom, timelineRangeStartDate, timelineRangeEndDate, timelineColumns,
  lifecycle, extensions

utilVars ==
  <<op, argZoom, argStart, argEnd, argCount, clock, retDate, retRange, retColumns,
    retFlag, barCall, heapCall, overlapCall>>

timelineVars ==
  <<timelineZoom, timelineRangeStartDate, timelineRangeEndDate, timelineColumns,
    lifecycle, extensions>>

storeVars == <<orders, storage, uuidCount>>

modalVars == <<modalRef, currentSubject, subjects>>

panelVars == <<panel, timers>>

vars == <<utilVars, storeVars, modalVars, panelVars, timelineVars>>

NoOverlapCall ==
  [orders |-> <<>>, workCenterId |-> "", startDate |-> <<0, 0, 0>>,
   endDate |-> <<0, 0, 0>>, excludeOrderId |-> NoId, result |-> FALSE]

NoBarCall ==
  [startDateIso |-> <<0, 0, 0>>, endDateIso |-> <<0, 0, 0>>,
   timelineRangeStartDate |-> 0, totalTimelineDurationMs |-> 1, zoom |-> "day",
   columns |-> <<>>, result |-> [left |-> Zero, width |-> Zero]]

NoHeapCall == [before |-> <<>>, passed |-> <<>>, after |-> <<>>, returned |-> <<>>, columns |-> <<>>]

NoPanel ==
  [editingOrder |-> NoOrder, workCenterId |-> "",
   form |-> [name |-> "", status |-> "", startDate |-> NullDateStruct,
             endDate |-> NullDateStruct],
   status |-> "INVALID", isClosing |-> FALSE]

\* The util harness at rest.
UtilIdle ==
  /\ op = "none"
  /\ argZoom = "day"
  /\ argStart = 0
  /\ argEnd = 0
  /\ argCount = 0
  /\ clock = 0
  /\ retDate = 0
  /\ retRange = [start |-> 0, end |-> 0]
  /\ retColumns = <<>>
  /\ retFlag = FALSE
  /\ barCall = NoBarCall
  /\ heapCall = NoHeapCall
  /\ overlapCall = NoOverlapCall

\* The Timeline component as constructed: zoom = ZoomLevelEnum.MONTH,
\* columns = [], the range dates not yet assigned (0).
TimelineConstructed ==
  /\ timelineZoom = "month"
  /\ timelineRangeStartDate = 0
  /\ timelineRangeEndDate = 0
  /\ timelineColumns = <<>>
  /\ lifecycle = "constructed"
  /\ extensions = 0

\* The application after construction: WorkOrderService has loaded its orders
\* from a localStorage that held nothing or an empty list; no modal is open.
Init ==
  /\ UtilIdle
  /\ \E item \in {NoItem, persist(<<>>)} :
       /\ orders = loadOrders(item).orders
       /\ storage = loadOrders(item).storage
  /\ uuidCount = 0
  /\ modalRef = 0
  /\ currentSubject = 0
  /\ subjects = <<>>
  /\ panel = NoPanel
  /\ timers = <<>>
  /\ TimelineConstructed

\* The dates the functions are called with: the first and the last days of
\* every month of a common year and of the first months of a leap year (a day
\* number past the month's end carries over into the next month), at every
\* time of day.
InputMonths ==
  { <<2023, m>> : m \in 0..11 } \cup { <<2024, m>> : m \in 0..2 }
InputDaysOfMonth == {1, 28, 29, 30, 31}
InputDates ==
  { MakeDate(MakeDay(ym[1], ym[2], d), t) :
      ym \in InputMonths, d \in InputDaysOfMonth, t \in 0..(TicksPerDay - 1) }

\* The lengths, in ticks, of the ranges generateColumns is called with; a
\* negative length is a rangeEnd before rangeStart.
InputSpans(zoom) ==
  LET days == CASE zoom = "month" -> 31 * MaxSpan
                [] zoom = "week"  -> 7 * MaxSpan
                [] zoom = "day"   -> MaxSpan
  IN  (0 - 1)..(days * TicksPerDay)

\* The orders hasOverlap is called with and run on.
InputIsoDates == {<<2026, 3, 13>>, <<2026, 3, 20>>, <<2026, 3, 27>>}

InputOrders ==
  { [id |-> 1, name |-> "A", workCenterId |-> wc, startDate |-> se[1],
     endDate |-> se[2], status |-> "open"] :
      wc \in WorkCenterIds,
      se \in { x \in InputIsoDates \X InputIsoDates : IsoTime(x[1]) <= IsoTime(x[2]) } }

\* Stores of at most two orders, with distinct ids.
InputStores ==
  {<<>>} \cup { <<a>> : a \in InputOrders }
         \cup { <<a, [b EXCEPT !.id = 2]>> : a \in InputOrders, b \in InputOrders }

InitUtil ==
  /\ UtilIdle
  /\ orders = <<>>
  /\ storage = NoItem
  /\ uuidCount = 0
  /\ modalRef = 0
  /\ currentSubject = 0
  /\ subjects = <<>>
  /\ panel = NoPanel
  /\ timers = <<>>
  /\ TimelineConstructed

\* Each call starts from the idle harness (op = "none") and records its
\* arguments and its result.
\* generateColumns(rangeStart, rangeEnd, zoom); rangeEnd may precede rangeStart.
CallGenerateColumns ==
  /\ op = "none"
  /\ \E s \in InputDates, zoom \in ZoomLevels :
       \E span \in InputSpans(zoom) :
         /\ op' = "generateColumns"
         /\ argZoom' = zoom
         /\ argStart' = s
         /\ argEnd' = s + span
         /\ argCount' = 0
         /\ clock' = s + span
         /\ retColumns' = generateColumns(s, s + span, zoom, s + span)
         /\ retDate' = 0
         /\ retRange' = [start |-> 0, end |-> 0]
         /\ heapCall' =
              LET result == generateColumnsOnHeap(<<s, s + span>>, 1, 2, zoom, s + span)
              IN  [before   |-> <<s, s + span>>,
                   passed   |-> <<1, 2>>,
                   after    |-> result.heap,
                   returned |-> [i \in 1..Len(result.columns) |-> result.columns[i].date],
                   columns  |-> result.columns]
         /\ UNCHANGED <<retFlag, barCall, overlapCall>>
         /\ UNCHANGED <<storeVars, modalVars, panelVars, timelineVars>>

CallExtendRight ==
  /\ op = "none"
  /\ \E d \in InputDates, zoom \in ZoomLevels, count \in 0..MaxCount :
       /\ op' = "extendRight"
       /\ argZoom' = zoom
       /\ argStart' = d
       /\ argEnd' = 0
       /\ argCount' = count
       /\ clock' = 0
       /\ retDate' = extendRight(d, zoom, count)
       /\ retRange' = [start |-> 0, end |-> 0]
       /\ retColumns' = <<>>
       /\ heapCall' =
            LET result == extendRightOnHeap(<<d>>, 1, zoom, count)
            IN  [before   |-> <<d>>,
                 passed   |-> <<1>>,
                 after    |-> result.heap,
                 returned |-> result.returned,
                 columns  |-> <<>>]
       /\ UNCHANGED <<retFlag, barCall, overlapCall>>
       /\ UNCHANGED <<storeVars, modalVars, panelVars, timelineVars>>

CallExtendLeft ==
  /\ op = "none"
  /\ \E d \in InputDates, zoom \in ZoomLevels, count \in 0..MaxCount :
       /\ op' = "extendLeft"
       /\ argZoom' = zoom
       /\ argStart' = d
       /\ argEnd' = 0
       /\ argCount' = count
       /\ clock' = 0
       /\ retDate' = extendLeft(d, zoom, count)
       /\ retRange' = [start |-> 0, end |-> 0]
       /\ retColumns' = <<>>
       /\ heapCall' =
            LET result == extendLeftOnHeap(<<d>>, 1, zoom, count)
            IN  [before   |-> <<d>>,
                 passed   |-> <<1>>,
                 after    |-> result.heap,
                 returned |-> result.returned,
                 columns  |-> <<>>]
       /\ UNCHANGED <<retFlag, barCall, overlapCall>>
       /\ UNCHANGED <<storeVars, modalVars, panelVars, timelineVars>>

\* extendLeft applied to the date extendRight returned, same zoom and count.
CallExtendLeftOfResult ==
  /\ op = "extendRight"
  /\ op' = "extendRight.extendLeft"
  /\ retDate' = extendLeft(retDate, argZoom, argCount)
  /\ heapCall' =
       LET result == extendLeftOnHeap(heapCall.after, heapCall.returned[1], argZoom, argCount)
       IN  [before   |-> heapCall.after,
            passed   |-> heapCall.returned,
            after    |-> result.heap,
            returned |-> result.returned,
            columns  |-> <<>>]
  /\ UNCHANGED <<argZoom, argStart, argEnd, argCount, clock, retRange, retColumns>>
  /\ UNCHANGED <<retFlag, barCall, overlapCall>>
  /\ UNCHANGED <<storeVars, modalVars, panelVars, timelineVars>>

\* extendRight applied to the date extendLeft returned, same zoom and count.
CallExtendRightOfResult ==
  /\ op = "extendLeft"
  /\ op' = "extendLeft.extendRight"
  /\ retDate' = extendRight(retDate, argZoom, argCount)
  /\ heapCall' =
       LET result == extendRightOnHeap(heapCall.after, heapCall.returned[1], argZoom, argCount)
       IN  [before   |-> heapCall.after,
            passed   |-> heapCall.returned,
            after    |-> result.heap,
            returned |-> result.returned,
            columns  |-> <<>>]
  /\ UNCHANGED <<argZoom, argStart, argEnd, argCount, clock, retRange, retColumns>>
  /\ UNCHANGED <<retFlag, barCall, overlapCall>>
  /\ UNCHANGED <<storeVars, modalVars, panelVars, timelineVars>>

\* getInitialRange(zoom), reading new Date() = now.
CallGetInitialRange ==
  /\ op = "none"
  /\ \E now \in InputDates, zoom \in ZoomLevels :
       /\ op' = "getInitialRange"
       /\ argZoom' = zoom
       /\ argStart' = 0
       /\ argEnd' = 0
       /\ argCount' = 0
       /\ clock' = now
       /\ retRange' = getInitialRange(zoom, now)
       /\ retDate' = 0
       /\ retColumns' = <<>>
       /\ UNCHANGED <<retFlag, barCall, heapCall, overlapCall>>
       /\ UNCHANGED <<storeVars, modalVars, panelVars, timelineVars>>

\* hasOverlap(workCenterId, newOrderStartDate, newOrderEndDate, excludeOrderId?)
\* on a store; excludeOrderId = NoId is the omitted argument.
CallHasOverlap ==
  /\ op = "none"
  /\ \E store \in InputStores, wc \in WorkCenterIds,
        sd \in InputIsoDates, ed \in InputIsoDates, exclude \in {NoId, 1, 2, 3} :
       /\ op' = "hasOverlap"
       /\ overlapCall' =
            [orders |-> store, workCenterId |-> wc, startDate |-> sd, endDate |-> ed,
             excludeOrderId |-> exclude,
             result |-> hasOverlap(store, wc, sd, ed, exclude)]
       /\ UNCHANGED <<argZoom, argStart, argEnd, argCount, clock, retDate, retRange,
                      retColumns, retFlag, barCall, heapCall>>
       /\ UNCHANGED <<storeVars, modalVars, panelVars, timelineVars>>

\* The values of new Date() isCurrentPeriod is called with, relative to the
\* column's date: from the day before it to the eighth day after it, at every
\* time of day.
NowOffsets == (0 - TicksPerDay)..(8 * TicksPerDay - 1)

\* isCurrentPeriod(date, now, zoom), as generateColumns calls it for a column.
CallIsCurrentPeriod ==
  /\ op = "none"
  /\ \E date \in InputDates, z \in ZoomLevels, offset \in NowOffsets :
       /\ op' = "isCurrentPeriod"
       /\ argZoom' = z
       /\ argStart' = date
       /\ argEnd' = 0
       /\ argCount' = 0
       /\ clock' = date + offset
       /\ retFlag' = isCurrentPeriod(date, date + offset, z)
       /\ retDate' = 0
       /\ retRange' = [start |-> 0, end |-> 0]
       /\ retColumns' = <<>>
       /\ UNCHANGED <<barCall, heapCall, overlapCall>>
       /\ UNCHANGED <<storeVars, modalVars, panelVars, timelineVars>>

\* The ranges calculateBarPosition is called with: a range start (a Sunday, the
\* first of a 31-day month, the first of February of a leap year, at every
\* time of day) and the number of periods of the zoom level from the range
\* start to the range end; 0 periods is a range of duration 0.
BarRangeStarts ==
  { MakeDate(DayOf(d), t) :
      d \in {NewDate(2023, 11, 31), NewDate(2024, 0, 1), NewDate(2024, 1, 1)},
      t \in 0..(TicksPerDay - 1) }
BarPeriods == {0, 1, 2, 10, 23}

\* The start and end dates of the work orders drawn.
BarIsoDates ==
  { <<2023, 12, 30>>, <<2023, 12, 31>>, <<2024, 1, 1>>, <<2024, 1, 3>>,
    <<2024, 1, 5>>, <<2024, 1, 7>>, <<2024, 1, 16>>, <<2024, 1, 31>>,
    <<2024, 2, 1>>, <<2024, 2, 29>>, <<2024, 3, 1>>, <<2024, 4, 30>>,
    <<2024, 5, 1>> }

\* calculateBarPosition as Timeline.getWorkOrderBarPosition calls it: for a
\* range [rangeStart, rangeEnd] with the columns generated for it and
\* timelineDurationInMs = rangeEnd - rangeStart; for a range of duration 0
\* also with the column list empty, as it is before the first build.
CallCalculateBarPosition ==
  /\ op = "none"
  /\ \E rangeStart \in BarRangeStarts, z \in ZoomLevels, periods \in BarPeriods :
       /\ op' = "calculateBarPosition"
       /\ argZoom' = z
       /\ argStart' = rangeStart
       /\ argCount' = periods
       /\ clock' = rangeStart
       /\ argEnd' = extendRight(rangeStart, z, periods)
       /\ \E cols \in {generateColumns(rangeStart, argEnd', z, rangeStart)}
                         \cup (IF periods = 0 THEN {<<>>} ELSE {}) :
            retColumns' = cols
       /\ \E startDateIso \in BarIsoDates, endDateIso \in BarIsoDates :
            barCall' =
              [startDateIso |-> startDateIso, endDateIso |-> endDateIso,
               timelineRangeStartDate |-> rangeStart,
               totalTimelineDurationMs |-> argEnd' - rangeStart,
               zoom |-> z, columns |-> retColumns',
               result |-> calculateBarPosition(startDateIso, endDateIso, rangeStart,
                                               argEnd' - rangeStart, z, retColumns')]
       /\ UNCHANGED <<retDate, retRange, retFlag, heapCall, overlapCall>>
       /\ UNCHANGED <<storeVars, modalVars, panelVars, timelineVars>>

NextUtil ==
  \/ CallHasOverlap
  \/ CallCalculateBarPosition
  \/ CallIsCurrentPeriod
  \/ CallGenerateColumns
  \/ CallExtendRight
  \/ CallExtendLeft
  \/ CallExtendLeftOfResult
  \/ CallExtendRightOfResult
  \/ CallGetInitialRange

SpecUtil == InitUtil /\ [][NextUtil]_vars


\* ------------------------------------------------------------------------
\* The application: App, ModalService, WorkOrderPanel, WorkOrderService
\* ------------------------------------------------------------------------

\* The dates of the timeline cells clicked to create an order, and the values
\* the user gives the form's controls.
ClickDates == {NewDate(2026, 2, 13)}
FormDates ==
  { [year |-> 2026, month |-> 3, day |-> 20],
    [year |-> 2026, month |-> 3, day |-> 27] }
FormNames == {"", "A"}

\* A Subject created by ModalService.open, with the subscriber App attached to
\* the observable open returned.
\* A Subject that is completed from the start.
NewSubject_Completed(subscriber) ==
  [subscriber |-> subscriber, completed |-> TRUE, emitted |-> <<>>]

NewSubject(subscriber) ==
  [subscriber |-> subscriber, completed |-> FALSE, emitted |-> <<>>]

\* ModalService.open putting the new modal in the place of the open one.
ModalOpen_Replace(subscriber, editingOrder, workCenterId, initialStartDate) ==
  /\ Len(subjects) < MaxOpens
  /\ subjects' = Append(subjects, NewSubject(subscriber))
  /\ LET form == initializeForm(editingOrder, initialStartDate)
     IN  /\ currentSubject' = Len(subjects) + 1
         /\ modalRef' = Len(subjects) + 1
         /\ panel' = [editingOrder |-> editingOrder,
                      workCenterId |-> workCenterId,
                      form |-> form,
                      status |-> FormStatus(editingOrder, workCenterId, form, orders),
                      isClosing |-> FALSE]
  /\ UNCHANGED <<timers, storeVars, utilVars, timelineVars>>

\* ModalService.open(WorkOrderPanel, data) followed by the panel's ngOnInit.
\* With a modal open, open returns a fresh Subject nobody will ever emit on.
ModalOpen(subscriber, editingOrder, workCenterId, initialStartDate) ==
  /\ Len(subjects) < MaxOpens
  /\ subjects' = Append(subjects, NewSubject(subscriber))
  /\ IF modalRef # 0
     THEN UNCHANGED <<modalRef, currentSubject, panel>>
     ELSE LET form == initializeForm(editingOrder, initialStartDate)
          IN  /\ currentSubject' = Len(subjects) + 1
              /\ modalRef' = Len(subjects) + 1
              /\ panel' = [editingOrder |-> editingOrder,
                           workCenterId |-> workCenterId,
                           form |-> form,
                           status |-> FormStatus(editingOrder, workCenterId, form, orders),
                           isClosing |-> FALSE]
  /\ UNCHANGED <<timers, storeVars, utilVars, timelineVars>>

\* App.openCreatePanel(workCenterId, date)
OpenCreatePanel ==
  \E workCenterId \in WorkCenterIds, date \in ClickDates :
    ModalOpen("create", NoOrder, workCenterId, date)

\* App.openEditPanel(order), for an order of the store
OpenEditPanel ==
  \E i \in 1..Len(orders) :
    ModalOpen("edit", orders[i], "", 0)

\* The user changes the value of form controls of the open panel; the form
\* group is revalidated against the store as it is now.
SetFormValue ==
  /\ modalRef # 0
  /\ \E name \in FormNames, startDate \in FormDates, endDate \in FormDates :
       LET form == [panel.form EXCEPT !.name = name, !.startDate = startDate,
                                      !.endDate = endDate]
       IN  /\ form # panel.form
           /\ panel' = [panel EXCEPT
                          !.form = form,
                          !.status = FormStatus(panel.editingOrder, panel.workCenterId,
                                                form, orders)]
  /\ UNCHANGED <<timers, modalVars, storeVars, utilVars, timelineVars>>

\* startCloseAnimation(payload): isClosing is set and a 250 ms timer is started.
StartCloseAnimation(hasPayload, payload) ==
  /\ Len(timers) < MaxTimers
  /\ panel' = [panel EXCEPT !.isClosing = TRUE]
  /\ timers' = Append(timers, [panel |-> modalRef, hasPayload |-> hasPayload,
                               payload |-> payload])

\* WorkOrderPanel.onSubmit
OnSubmit ==
  /\ modalRef # 0
  /\ IF panel.status = "INVALID"
     THEN UNCHANGED <<panel, timers>>
     ELSE StartCloseAnimation(
            TRUE, SubmitPayload(panel.editingOrder, panel.workCenterId, panel.form))
  /\ UNCHANGED <<modalVars, storeVars, utilVars, timelineVars>>

\* WorkOrderPanel.closePanel (the cancel button, a click on the background)
ClosePanel ==
  /\ modalRef # 0
  /\ StartCloseAnimation(FALSE, NoOrder)
  /\ UNCHANGED <<modalVars, storeVars, utilVars, timelineVars>>

\* The oldest close timer fires: modalService.close(payload).  The subscriber
\* attached by App receives the result: openCreatePanel's calls addOrder,
\* openEditPanel's calls updateOrder, both return on an empty result.
CloseTimerFires ==
  /\ timers # <<>>
  /\ LET timer == Head(timers)
     IN  /\ timers' = Tail(timers)
         /\ IF modalRef = 0 \/ currentSubject = 0
            THEN UNCHANGED <<modalVars, storeVars, panel>>
            ELSE /\ subjects' =
                      [subjects EXCEPT ![currentSubject] =
                         [@ EXCEPT !.emitted = Append(@, [panel |-> timer.panel,
                                                          hasPayload |-> timer.hasPayload]),
                                  !.completed = TRUE]]
                 /\ modalRef' = 0
                 /\ currentSubject' = 0
                 /\ panel' = NoPanel
                 /\ IF ~timer.hasPayload
                    THEN UNCHANGED storeVars
                    ELSE IF subjects[currentSubject].subscriber = "create"
                    THEN LET updatedOrdersList ==
                               addOrder(orders, timer.payload, randomUUID(uuidCount + 1))
                         IN  /\ orders' = updatedOrdersList
                             /\ storage' = persist(updatedOrdersList)
                             /\ uuidCount' = uuidCount + 1
                    ELSE LET updatedOrdersList == updateOrder(orders, timer.payload)
                         IN  /\ orders' = updatedOrdersList
                             /\ storage' = persist(updatedOrdersList)
                             /\ UNCHANGED uuidCount
  /\ UNCHANGED <<utilVars, timelineVars>>

\* App.onDeleteOrder(orderId), from the delete entry of a bar of the timeline
OnDeleteOrder ==
  /\ \E i \in 1..Len(orders) :
       LET updatedOrdersList == deleteOrder(orders, orders[i].id)
       IN  /\ orders' = updatedOrdersList
           /\ storage' = persist(updatedOrdersList)
  /\ UNCHANGED <<uuidCount, modalVars, panelVars, utilVars, timelineVars>>

Next ==
  \/ OpenCreatePanel
  \/ OpenEditPanel
  \/ SetFormValue
  \/ OnSubmit
  \/ ClosePanel
  \/ CloseTimerFires
  \/ OnDeleteOrder

Spec == Init /\ [][Next]_vars

\* A timer started with setTimeout(..., 250) fires: the callback of the oldest
\* pending timer is run at last.
SpecLive == Init /\ [][Next]_vars /\ WF_vars(CloseTimerFires)

\* ------------------------------------------------------------------------
\* WorkOrderService on its own
\* ------------------------------------------------------------------------

\* What localStorage holds when the page is loaded.
StoredStores ==
  { <<>>, SEED_ORDERS,
    Append(SEED_ORDERS, [id |-> 2, name |-> "B", workCenterId |-> "wc2",
                         startDate |-> <<2026, 3, 13>>, endDate |-> <<2026, 3, 20>>,
                         status |-> "open"]) }
StoredItems == {NoItem, EmptyItem, CorruptItem} \cup { persist(s) : s \in StoredStores }

\* The orders addOrder is called with (they have no id), and the ids
\* updateOrder and deleteOrder are called with: those of stored and of added
\* orders, and the id of no order.
NewOrderData ==
  { [NoOrder EXCEPT !.name = name, !.workCenterId = "wc1", !.status = "open",
                    !.startDate = <<2026, 3, 20>>, !.endDate = <<2026, 3, 27>>] :
      name \in {"C", "D"} }
CallIds == {1, 2, 7} \cup { randomUUID(n) : n \in 1..MaxAdds }

\* The page before the service is constructed.
InitStore ==
  /\ UtilIdle
  /\ orders = <<>>
  /\ storage \in StoredItems
  /\ uuidCount = 0
  /\ modalRef = 0
  /\ currentSubject = 0
  /\ subjects = <<>>
  /\ panel = NoPanel
  /\ timers = <<>>
  /\ TimelineConstructed

StoreFrame ==
  UNCHANGED <<argZoom, argStart, argEnd, argCount, clock, retDate, retRange,
              retColumns, retFlag, barCall, heapCall, overlapCall,
              modalVars, panelVars, timelineVars>>

\* The page is loaded or reloaded: the service is constructed and its orders
\* signal initialised with loadOrders().
LoadPage ==
  /\ op' = "loadOrders"
  /\ orders' = loadOrders(storage).orders
  /\ storage' = loadOrders(storage).storage
  /\ UNCHANGED uuidCount
  /\ StoreFrame

CallAddOrder ==
  /\ op # "none"
  /\ uuidCount < MaxAdds
  /\ \E newOrderData \in NewOrderData :
       LET updatedOrdersList == addOrder(orders, newOrderData, randomUUID(uuidCount + 1))
       IN  /\ orders' = updatedOrdersList
           /\ storage' = persist(updatedOrdersList)
  /\ uuidCount' = uuidCount + 1
  /\ op' = "addOrder"
  /\ StoreFrame

CallUpdateOrder ==
  /\ op # "none"
  /\ \E id \in CallIds, name \in {"E", "F"} :
       LET updatedOrder == [NoOrder EXCEPT !.id = id, !.name = name,
                                           !.workCenterId = "wc2", !.status = "blocked",
                                           !.startDate = <<2026, 3, 13>>,
                                           !.endDate = <<2026, 3, 27>>]
           updatedOrdersList == updateOrder(orders, updatedOrder)
       IN  /\ orders' = updatedOrdersList
           /\ storage' = persist(updatedOrdersList)
           /\ argCount' = id
  /\ op' = "updateOrder"
  /\ UNCHANGED <<uuidCount, argZoom, argStart, argEnd, clock, retDate, retRange,
                 retColumns, retFlag, barCall, heapCall, overlapCall,
                 modalVars, panelVars, timelineVars>>

CallDeleteOrder ==
  /\ op # "none"
  /\ \E orderIdToDelete \in CallIds :
       LET updatedOrdersList == deleteOrder(orders, orderIdToDelete)
       IN  /\ orders' = updatedOrdersList
           /\ storage' = persist(updatedOrdersList)
           /\ argCount' = orderIdToDelete
  /\ op' = "deleteOrder"
  /\ UNCHANGED <<uuidCount, argZoom, argStart, argEnd, clock, retDate, retRange,
                 retColumns, retFlag, barCall, heapCall, overlapCall,
                 modalVars, panelVars, timelineVars>>

NextStore ==
  \/ LoadPage
  \/ CallAddOrder
  \/ CallUpdateOrder
  \/ CallDeleteOrder

SpecStore == InitStore /\ [][NextStore]_vars

\* ------------------------------------------------------------------------
\* The Timeline component
\* ------------------------------------------------------------------------

\* The values of new Date() while the timeline is on screen: a Sunday (the
\* 1st of January 2023), a Saturday (the 28th of January 2023) and a leap day
\* (the 29th of February 2024), at every time of day.  The clock is read by
\* getInitialRange and by every generateColumns call.
TimelineNows ==
  { MakeDate(d, t) :
      d \in {MakeDay(2023, 0, 1), MakeDay(2023, 0, 28), MakeDay(2024, 1, 29)},
      t \in 0..(TicksPerDay - 1) }

\* columns.findIndex(column => column.isCurrentPeriod): -1 when there is none.
currentPeriodIndex(cols) ==
  IF \E i \in 1..Len(cols) : cols[i].isCurrentPeriod
  THEN (CHOOSE i \in 1..Len(cols) :
          /\ cols[i].isCurrentPeriod
          /\ \A j \in 1..(i - 1) : ~cols[j].isCurrentPeriod) - 1
  ELSE 0 - 1

InitTimeline ==
  /\ op = "none"
  /\ argZoom = "day"
  /\ argStart = 0
  /\ argEnd = 0
  /\ argCount = 0
  /\ clock \in TimelineNows
  /\ retDate = 0
  /\ retRange = [start |-> 0, end |-> 0]
  /\ retColumns = <<>>
  /\ retFlag = FALSE
  /\ barCall = NoBarCall
  /\ heapCall = NoHeapCall
  /\ overlapCall = NoOverlapCall
  /\ orders = <<>>
  /\ storage = NoItem
  /\ uuidCount = 0
  /\ modalRef = 0
  /\ currentSubject = 0
  /\ subjects = <<>>
  /\ panel = NoPanel
  /\ timers = <<>>
  /\ TimelineConstructed

\* rebuildTimeline regenerating the columns over the range it already has.
rebuildTimeline_KeepRange(z) ==
  /\ timelineRangeStartDate' =
       IF lifecycle = "constructed" THEN getInitialRange(z, clock).start
       ELSE timelineRangeStartDate
  /\ timelineRangeEndDate' =
       IF lifecycle = "constructed" THEN getInitialRange(z, clock).end
       ELSE timelineRangeEndDate
  /\ timelineColumns' =
       generateColumns(timelineRangeStartDate', timelineRangeEndDate', z, clock)

\* rebuildTimeline, for the value z of the zoom input.
rebuildTimeline(z) ==
  LET range == getInitialRange(z, clock)
  IN  /\ timelineRangeStartDate' = range.start
      /\ timelineRangeEndDate' = range.end
      /\ timelineColumns' = generateColumns(range.start, range.end, z, clock)

\* The parent binds the zoom input (the first change does not rebuild), then
\* ngOnInit rebuilds the timeline.
NgOnInit ==
  /\ lifecycle = "constructed"
  /\ \E z \in ZoomLevels :
       /\ timelineZoom' = z
       /\ rebuildTimeline(z)
  /\ lifecycle' = "initialized"
  /\ UNCHANGED <<extensions, utilVars, storeVars, modalVars, panelVars>>

\* ngAfterViewInit: scrollToCurrentTimePeriod sets the scroll position only;
\* attachInfiniteScrollListener attaches handleGridScroll.
NgAfterViewInit ==
  /\ lifecycle = "initialized"
  /\ lifecycle' = "rendered"
  /\ UNCHANGED <<timelineZoom, timelineRangeStartDate, timelineRangeEndDate,
                 timelineColumns, extensions>>
  /\ UNCHANGED <<utilVars, storeVars, modalVars, panelVars>>

\* ngOnChanges with a change of zoom that is not the first: rebuildTimeline.
NgOnChanges ==
  /\ lifecycle \in {"initialized", "rendered"}
  /\ \E z \in ZoomLevels \ {timelineZoom} :
       /\ timelineZoom' = z
       /\ rebuildTimeline(z)
  /\ UNCHANGED <<lifecycle, extensions, utilVars, storeVars, modalVars, panelVars>>

\* handleGridScroll: nearLeft is scrollLeft < 300 and nearRight is
\* remainingScrollRight < 300, as the scroll position has them.
HandleGridScroll ==
  /\ lifecycle = "rendered"
  /\ extensions < MaxExtensions
  /\ \E nearLeft \in BOOLEAN, nearRight \in BOOLEAN :
       LET columnsToExtendCount == getExtensionCount(timelineZoom)
           start == IF nearLeft
                    THEN extendLeft(timelineRangeStartDate, timelineZoom,
                                    columnsToExtendCount)
                    ELSE timelineRangeStartDate
           end   == IF nearRight
                    THEN extendRight(timelineRangeEndDate, timelineZoom,
                                     columnsToExtendCount)
                    ELSE timelineRangeEndDate
       IN  /\ timelineRangeStartDate' = start
           /\ timelineRangeEndDate' = end
           /\ timelineColumns' =
                IF nearLeft \/ nearRight
                THEN generateColumns(start, end, timelineZoom, clock)
                ELSE timelineColumns
           /\ extensions' = IF nearLeft \/ nearRight THEN extensions + 1 ELSE extensions
  /\ UNCHANGED <<timelineZoom, lifecycle, utilVars, storeVars, modalVars, panelVars>>

NextTimeline ==
  \/ NgOnInit
  \/ NgAfterViewInit
  \/ NgOnChanges
  \/ HandleGridScroll

SpecTimeline == InitTimeline /\ [][NextTimeline]_vars

\* ------------------------------------------------------------------------
\* Properties of the range & column generator
\* ------------------------------------------------------------------------

\* The calendar month of a date, counted from year 0.
MonthIndex(t) == getFullYear(t) * 12 + getMonth(t)

LastColumnDate(columns) == columns[Len(columns)].date

\* The length of one step of a zoom level where it is a fixed number of days.
StepTicks(zoom) == IF zoom = "week" THEN 7 * TicksPerDay ELSE TicksPerDay

C5_OneColumnPerCalendarMonth ==
  (op = "generateColumns" /\ argZoom = "month" /\ argStart <= argEnd) =>
    /\ Len(retColumns) > 0
    /\ MonthIndex(retColumns[1].date) = MonthIndex(argStart)
    /\ \A i \in 1..(Len(retColumns) - 1) :
         MonthIndex(retColumns[i + 1].date) = MonthIndex(retColumns[i].date) + 1

\* C6: at day and week zoom extendLeft and extendRight are exact inverses for
\* every date and every count.
C6_DayWeekRoundTrip ==
  (op \in {"extendRight.extendLeft", "extendLeft.extendRight"}
     /\ argZoom \in {"day", "week"}) =>
    retDate = argStart

C6_Witness ==
  /\ op = "extendRight.extendLeft"
  /\ argZoom = "week"
  /\ argCount >= 2
  /\ getDate(argStart) = 31
  /\ retDate = argStart

\* C7: at month zoom, for a date whose day-of-month is at most 28, stepping
\* back n months then forward n months, and forward then back, returns the
\* date, and every intermediate date keeps the day-of-month.
C7_MonthRoundTripUpTo28 ==
  (op \in {"extendRight.extendLeft", "extendLeft.extendRight"}
     /\ argZoom = "month" /\ getDate(argStart) <= 28) =>
    /\ retDate = argStart
    /\ \A k \in 0..argCount :
         /\ getDate(extendRight(argStart, "month", k)) = getDate(argStart)
         /\ getDate(extendLeft(argStart, "month", k)) = getDate(argStart)
         /\ getDate(extendLeft(extendRight(argStart, "month", argCount), "month", k))
              = getDate(argStart)
         /\ getDate(extendRight(extendLeft(argStart, "month", argCount), "month", k))
              = getDate(argStart)

\* 28 March, back across February and forward again.
C7_Witness ==
  /\ op = "extendLeft.extendRight"
  /\ argZoom = "month"
  /\ argCount >= 2
  /\ getDate(argStart) = 28
  /\ getMonth(argStart) = 2
  /\ retDate = argStart

\* C8: at month zoom, for a date d on day 29, 30 or 31, extendRight(d, 1) is a
\* date of the calendar month after d's, and extendLeft of that date is a date
\* of d's own calendar month.
C8_MonthEndStaysInAdjacentMonth ==
  (argZoom = "month" /\ argCount = 1 /\ getDate(argStart) >= 29) =>
    /\ op = "extendRight" => MonthIndex(retDate) = MonthIndex(argStart) + 1
    /\ op = "extendRight.extendLeft" => MonthIndex(retDate) = MonthIndex(argStart)

\* C9: getInitialRange returns start <= end with end a whole number of steps
\* after start: the columns generated for the range end exactly on end.
C9_InitialRangeEndsOnAStep ==
  op = "getInitialRange" =>
    /\ retRange.start <= retRange.end
    /\ LastColumnDate(
         generateColumns(retRange.start, retRange.end, argZoom, clock)) = retRange.end

\* C10: getInitialRange returns a range with start < now < end, for every zoom
\* level and every now.
C10_NowStrictlyInside ==
  op = "getInitialRange" =>
    /\ retRange.start < clock
    /\ clock < retRange.end

\* now = 29 February 2024, month zoom.
C10_Witness ==
  /\ op = "getInitialRange"
  /\ argZoom = "month"
  /\ getFullYear(clock) = 2024 /\ getMonth(clock) = 1 /\ getDate(clock) = 29
  /\ getMonth(retRange.start) = 2

\* C11: at week zoom a column with anchor date a is flagged isCurrentPeriod
\* exactly when the calendar date of now lies in [a, a + 6 days], whatever the
\* time of day of now (true during all of day a + 6, false on days a - 1 and
\* a + 7).
C11_WeekCurrentByCalendarDate ==
  (op = "isCurrentPeriod" /\ argZoom = "week") =>
    retFlag = (DayOf(clock) \in DayOf(argStart)..(DayOf(argStart) + 6))

\* The number of columns flagged isCurrentPeriod.
CurrentColumns(cols) == { i \in 1..Len(cols) : cols[i].isCurrentPeriod }

\* C12: for every zoom level and every now, the columns of the initial range,
\* and of every range obtained from it by scroll extensions, contain exactly
\* one column flagged isCurrentPeriod, so currentPeriodIndex is never -1.
C12_ExactlyOneCurrentColumn ==
  lifecycle # "constructed" =>
    /\ Cardinality(CurrentColumns(timelineColumns)) = 1
    /\ currentPeriodIndex(timelineColumns) # 0 - 1

\* ------------------------------------------------------------------------
\* Properties of the bar position
\* ------------------------------------------------------------------------

\* The day number of a calendar date 'YYYY-MM-DD'.
IsoDay(iso) == DaysFromCivil(iso[1], iso[2], iso[3])

\* The call of the worked example of linear mode: range [2024-01-01,
\* 2024-01-11], interval [2024-01-03, 2024-01-05].
LinearExample ==
  /\ op = "calculateBarPosition"
  /\ barCall.zoom = "day"
  /\ DayOf(barCall.timelineRangeStartDate) = DaysFromCivil(2024, 1, 1)
  /\ barCall.totalTimelineDurationMs = 10 * TicksPerDay
  /\ barCall.startDateIso = <<2024, 1, 3>>
  /\ barCall.endDateIso = <<2024, 1, 5>>

\* C13: at day and week zoom calculateBarPosition returns
\* left = (intervalStart - rangeStart) / rangeDuration * 100 and
\* width = (intervalEnd - intervalStart) / rangeDuration * 100, the dates taken
\* as calendar dates, with no clamping (left is negative for an interval that
\* starts before the range, width is 0 for an interval of no length); the
\* worked example gives left = 20 and width = 20.  The quotients are those
\* of a range that has a duration: a duration of 0 is the matter of C24.
C13_LinearPercentages ==
  (/\ op = "calculateBarPosition"
   /\ barCall.zoom \in {"day", "week"}
   /\ barCall.totalTimelineDurationMs # 0) =>
    LET c == barCall
        intervalStart == IsoDay(c.startDateIso) * TicksPerDay
        intervalEnd == IsoDay(c.endDateIso) * TicksPerDay
        rangeStart == DayOf(c.timelineRangeStartDate) * TicksPerDay
    IN  /\ c.result.left.den > 0
        /\ c.result.width.den > 0
        /\ c.result.left.num * c.totalTimelineDurationMs
             = 100 * (intervalStart - rangeStart) * c.result.left.den
        /\ c.result.width.num * c.totalTimelineDurationMs
             = 100 * (intervalEnd - intervalStart) * c.result.width.den
        /\ intervalStart < rangeStart => c.result.left.num < 0
        /\ intervalEnd = intervalStart => c.result.width.num = 0
        /\ LinearExample =>
             /\ c.result.left = [num |-> 20, den |-> 1]
             /\ c.result.width = [num |-> 20, den |-> 1]

\* An interval of no length that starts the day before a week range.
C13_Witness ==
  /\ op = "calculateBarPosition"
  /\ barCall.zoom = "week"
  /\ barCall.startDateIso = <<2023, 12, 30>>
  /\ barCall.endDateIso = <<2023, 12, 30>>
  /\ DayOf(barCall.timelineRangeStartDate) = DaysFromCivil(2023, 12, 31)
  /\ barCall.result.left.num < 0
  /\ barCall.result.width.num = 0

\* The number of days of month m (1..12) of year y.
DaysInMonth(y, m) ==
  IF m \in {4, 6, 9, 11} THEN 30
  ELSE IF m # 2 THEN 31
  ELSE IF (y % 4 = 0 /\ y % 100 # 0) \/ y % 400 = 0 THEN 29 ELSE 28

\* The number of months from the month of the range start to the month of
\* the interval start of a call.
MonthsToIntervalStart(c) ==
  12 * (c.startDateIso[1] - getFullYear(c.timelineRangeStartDate))
    + (c.startDateIso[2] - 1 - getMonth(c.timelineRangeStartDate))

\* C14: at month zoom calculateBarPosition returns
\* left = (m + (day - 1) / D) / N * 100, that is left * N * D =
\* 100 * (m * D + day - 1), with m the months from the range's start month to
\* the interval's start month, day the interval start's day-of-month, D the
\* number of days of that month and N the number of columns; for N = 24,
\* range start 2024-01-01 and interval start 2024-01-16, left = (15/31)/24*100.
\* N is at least 1: an empty column list is the matter of C24.
C14_MonthLeft ==
  (op = "calculateBarPosition" /\ barCall.zoom = "month" /\ Len(barCall.columns) > 0) =>
    LET c == barCall
        m == MonthsToIntervalStart(c)
        day == c.startDateIso[3]
        D == DaysInMonth(c.startDateIso[1], c.startDateIso[2])
        N == Len(c.columns)
    IN  /\ c.result.left.den > 0
        /\ c.result.left.num * N * D = 100 * (m * D + day - 1) * c.result.left.den
        /\ ( /\ N = 24
              /\ DayOf(c.timelineRangeStartDate) = DaysFromCivil(2024, 1, 1)
              /\ c.startDateIso = <<2024, 1, 16>> )
             => FracEq(c.result.left, [num |-> 15 * 100, den |-> 31 * 24])

\* The range of the worked example with an interval that starts on 29
\* February 2024.
C14_Witness ==
  /\ op = "calculateBarPosition"
  /\ barCall.zoom = "month"
  /\ Len(barCall.columns) = 24
  /\ DayOf(barCall.timelineRangeStartDate) = DaysFromCivil(2024, 1, 1)
  /\ barCall.startDateIso = <<2024, 2, 29>>
  /\ barCall.result.left.num * 24 * 29 = 100 * (29 + 28) * barCall.result.left.den

\* The width month mode computes before the floor, for a call c:
\* durationDays / (N * 30.44) * 100.
ComputedMonthWidth(c) ==
  [num |-> (IsoDay(c.endDateIso) - IsoDay(c.startDateIso)) * 100 * 100,
   den |-> Len(c.columns) * 3044]

\* C15: at month zoom the width is max(1.5, durationDays / (N * 30.44) * 100):
\* never below 1.5, exactly 1.5 when the computed value is below 1.5 (empty
\* and reversed intervals included), the computed value otherwise; at day and
\* week zoom no floor is applied.  N is at least 1: an empty column list is
\* the matter of C24.
C15_MonthWidthFloor ==
  op = "calculateBarPosition" =>
    LET c == barCall
        floor == [num |-> 3, den |-> 2]
    IN  /\ (c.zoom = "month" /\ Len(c.columns) > 0) =>
             /\ c.result.width.den > 0
             /\ ~FracLess(c.result.width, floor)
             /\ FracLess(ComputedMonthWidth(c), floor) => c.result.width = floor
             /\ ~FracLess(ComputedMonthWidth(c), floor) =>
                  FracEq(c.result.width, ComputedMonthWidth(c))
        /\ c.zoom # "month" =>
             FracEq(c.result.width,
                    [num |-> 100 * (IsoDay(c.endDateIso) - IsoDay(c.startDateIso))
                               * TicksPerDay,
                     den |-> c.totalTimelineDurationMs])

\* A reversed interval drawn at the floor in a month range of 24 columns.
C15_Witness ==
  /\ op = "calculateBarPosition"
  /\ barCall.zoom = "month"
  /\ Len(barCall.columns) = 24
  /\ IsoDay(barCall.endDateIso) < IsoDay(barCall.startDateIso)
  /\ barCall.result.width = [num |-> 3, den |-> 2]

\* The interval of call c starts on the last day of a month and ends on the
\* first day of the following month, and columns i and i + 1 are the columns of
\* these two months.
SpansBoundaryAfterColumn(c, i) ==
  LET startMonth == c.startDateIso[1] * 12 + c.startDateIso[2] - 1
  IN  /\ c.startDateIso[3] = DaysInMonth(c.startDateIso[1], c.startDateIso[2])
      /\ IsoDay(c.endDateIso) = IsoDay(c.startDateIso) + 1
      /\ i + 1 <= Len(c.columns)
      /\ MonthIndex(c.columns[i].date) = startMonth
      /\ MonthIndex(c.columns[i + 1].date) = startMonth + 1
      /\ \A j \in 1..(i - 1) :
           MonthIndex(c.columns[j + 1].date) = MonthIndex(c.columns[j].date) + 1

\* C16: at month zoom, the bar of an interval that starts on the last day of a
\* month and ends on the first day of the next, both months among the N
\* columns, crosses the boundary between their columns:
\* left < (m + 1) / N * 100 < left + width, m the index of the start month's
\* column, for every N >= 2 and every pair of months.
C16_BarCrossesMonthBoundary ==
  (op = "calculateBarPosition" /\ barCall.zoom = "month") =>
    \A i \in 1..Len(barCall.columns) :
      SpansBoundaryAfterColumn(barCall, i) =>
        LET boundary == [num |-> i * 100, den |-> Len(barCall.columns)]
        IN  /\ FracLess(barCall.result.left, boundary)
            /\ FracLess(boundary, FracAdd(barCall.result.left, barCall.result.width))

\* C16, amended: the bar crosses the boundary for every N >= 3 and every pair
\* of months, and for N = 2 when the start month has 31 days.
C16_BarCrossesFromThreeColumns ==
  (op = "calculateBarPosition" /\ barCall.zoom = "month") =>
    \A i \in 1..Len(barCall.columns) :
      ( /\ SpansBoundaryAfterColumn(barCall, i)
        /\ Len(barCall.columns) >= 3 \/ barCall.startDateIso[3] = 31 ) =>
        LET boundary == [num |-> i * 100, den |-> Len(barCall.columns)]
        IN  /\ FracLess(barCall.result.left, boundary)
            /\ FracLess(boundary, FracAdd(barCall.result.left, barCall.result.width))

\* 29 February - 1 March 2024 in a range of 24 columns that starts in
\* January 2024: the bar crosses the boundary after the second column.
C16_Witness ==
  /\ op = "calculateBarPosition"
  /\ barCall.zoom = "month"
  /\ Len(barCall.columns) = 24
  /\ barCall.startDateIso = <<2024, 2, 29>>
  /\ SpansBoundaryAfterColumn(barCall, 2)
  /\ FracLess([num |-> 200, den |-> 24],
              FracAdd(barCall.result.left, barCall.result.width))

\* C17: at day and week zoom, with the duration and the columns of the same
\* range, a bar whose interval starts on the date of column i (counted from 0)
\* has its left edge on the left edge of that column, the columns being of
\* equal width: left = i / columns.length * 100.
C17_BarStartsOnItsColumn ==
  (/\ op = "calculateBarPosition"
   /\ barCall.zoom \in {"day", "week"}
   /\ barCall.totalTimelineDurationMs # 0) =>
    \A k \in 1..Len(barCall.columns) :
      IsoDay(barCall.startDateIso) = DayOf(barCall.columns[k].date) =>
        FracEq(barCall.result.left,
               [num |-> (k - 1) * 100, den |-> Len(barCall.columns)])


\* ------------------------------------------------------------------------
\* Properties of the timeline's range
\* ------------------------------------------------------------------------

\* The range and the columns rebuildTimeline makes for the present zoom.
InitialColumns ==
  LET range == getInitialRange(timelineZoom, clock)
  IN  generateColumns(range.start, range.end, timelineZoom, clock)

\* C18: a scroll event that extends the range grows it by getExtensionCount
\* columns on each side it extends: the count is positive, larger for day
\* than for week than for month, a left extension prepends that many columns,
\* a right extension appends that many, and the columns present before are
\* all present afterwards, in the same order, with their dates and labels.
C18_ExtensionGrowsByCount ==
  [][extensions' = extensions + 1 =>
       LET count     == getExtensionCount(timelineZoom)
           prepended == IF timelineRangeStartDate' # timelineRangeStartDate
                        THEN count ELSE 0
           appended  == IF timelineRangeEndDate' # timelineRangeEndDate
                        THEN count ELSE 0
       IN  /\ count > 0
           /\ getExtensionCount("day") > getExtensionCount("week")
           /\ getExtensionCount("week") > getExtensionCount("month")
           /\ prepended + appended > 0
           /\ Len(timelineColumns') = Len(timelineColumns) + prepended + appended
           /\ \A i \in 1..Len(timelineColumns) :
                /\ timelineColumns'[i + prepended].date = timelineColumns[i].date
                /\ timelineColumns'[i + prepended].label = timelineColumns[i].label
  ]_vars

\* C18 witness: a week timeline after one scroll to the left edge, twelve
\* columns longer than the one rebuildTimeline made.
C18_Witness ==
  /\ lifecycle = "rendered"
  /\ extensions = 1
  /\ timelineZoom = "week"
  /\ timelineRangeStartDate =
       extendLeft(getInitialRange("week", clock).start, "week", 12)
  /\ timelineRangeEndDate = getInitialRange("week", clock).end
  /\ Len(timelineColumns) = Len(InitialColumns) + 12

\* C19: once the timeline is built, and after every zoom change and scroll
\* extension, every column's date is its period's anchor: the 1st of its
\* month at month zoom; at week zoom the first day of the week (Sunday, the
\* same weekday for all columns) at local midnight.
C19_ColumnDatesAreAnchors ==
  lifecycle # "constructed" =>
    \A i \in 1..Len(timelineColumns) :
      /\ timelineZoom = "month" => getDate(timelineColumns[i].date) = 1
      /\ timelineZoom = "week" =>
           /\ getDay(timelineColumns[i].date) = 0
           /\ TimeOf(timelineColumns[i].date) = 0

\* C19 witness: a week timeline built in the middle of a day that is not a
\* Sunday, then extended twice, to the left among others.
C19_Witness ==
  /\ lifecycle = "rendered"
  /\ timelineZoom = "week"
  /\ extensions = 2
  /\ getDay(clock) # 0
  /\ TimeOf(clock) # 0
  /\ timelineRangeStartDate < getInitialRange("week", clock).start
  /\ Len(timelineColumns) > Len(InitialColumns) + 12

\* ------------------------------------------------------------------------
\* Properties of the Date objects
\* ------------------------------------------------------------------------

ExtendCalls == {"extendLeft", "extendRight", "extendRight.extendLeft", "extendLeft.extendRight"}

\* C20: extendLeft, extendRight and generateColumns leave the Date objects
\* they are passed with the values they had; what they return (the date,
\* the dates of the columns) are objects the caller did not hold, each its
\* own, holding the values of the results; with count = 0 the returned date
\* has the value of the date passed.
C20_InputDatesNotMutated ==
  (op \in ExtendCalls \/ op = "generateColumns") =>
    /\ \A r \in 1..Len(heapCall.before) : heapCall.after[r] = heapCall.before[r]
    /\ \A i \in 1..Len(heapCall.returned) :
         /\ heapCall.returned[i] \notin 1..Len(heapCall.before)
         /\ \A j \in 1..(i - 1) : heapCall.returned[j] # heapCall.returned[i]
    /\ op \in ExtendCalls =>
         /\ Len(heapCall.returned) = 1
         /\ heapCall.after[heapCall.returned[1]] = retDate
         /\ argCount = 0 =>
              heapCall.after[heapCall.returned[1]] = heapCall.before[heapCall.passed[1]]
    /\ op = "generateColumns" =>
         /\ heapCall.passed = <<1, 2>>
         /\ Len(heapCall.returned) = Len(retColumns)
         /\ \A i \in 1..Len(retColumns) :
              /\ heapCall.after[heapCall.returned[i]] = retColumns[i].date
              /\ heapCall.columns[i].label = retColumns[i].label
              /\ heapCall.columns[i].isCurrentPeriod = retColumns[i].isCurrentPeriod

\* C20 witness: extendLeft by two months has returned a new object two
\* months before the date passed, which still has its value.
C20_Witness ==
  /\ op = "extendLeft"
  /\ argZoom = "month"
  /\ argCount = 2
  /\ heapCall.before = <<argStart>>
  /\ heapCall.after[1] = argStart
  /\ heapCall.returned = <<2>>
  /\ heapCall.after[2] = retDate
  /\ retDate < argStart

\* ------------------------------------------------------------------------
\* Properties of the overlap detector and of the store
\* ------------------------------------------------------------------------

\* a is before b, as calendar dates 'YYYY-MM-DD'.
IsoBefore(a, b) ==
  \/ a[1] < b[1]
  \/ a[1] = b[1] /\ a[2] < b[2]
  \/ a[1] = b[1] /\ a[2] = b[2] /\ a[3] < b[3]

\* The half-open intervals [cs, ce) and [e.startDate, e.endDate) intersect.
Intersects(cs, ce, e) == IsoBefore(cs, e.endDate) /\ IsoBefore(e.startDate, ce)

\* C2: after any sequence of orders created and edited through the panel and
\* deleted through the timeline, no two distinct orders of one work center
\* overlap.
C2_NoTwoOrdersOfACenterOverlap ==
  \A i \in 1..Len(orders), j \in 1..Len(orders) :
    (i # j /\ orders[i].workCenterId = orders[j].workCenterId) =>
      ~Intersects(orders[i].startDate, orders[i].endDate, orders[j])

\* C3: hasOverlap is true exactly when the store holds an order of the given
\* work center, other than the excluded one, that intersects the candidate;
\* in particular an order re-validated with its own bounds and its own id does
\* not conflict with itself.
C3_HasOverlapIsIntersection ==
  op = "hasOverlap" =>
    LET c == overlapCall
    IN  /\ c.result =
             (\E i \in 1..Len(c.orders) :
                /\ c.orders[i].workCenterId = c.workCenterId
                /\ c.orders[i].id # c.excludeOrderId
                /\ Intersects(c.startDate, c.endDate, c.orders[i]))
        /\ \A k \in 1..Len(c.orders) :
             ( /\ c.orders[k].workCenterId = c.workCenterId
               /\ c.orders[k].id = c.excludeOrderId
               /\ c.orders[k].startDate = c.startDate
               /\ c.orders[k].endDate = c.endDate
               /\ \A i \in 1..Len(c.orders) :
                    (i # k /\ c.orders[i].workCenterId = c.workCenterId) =>
                      ~Intersects(c.startDate, c.endDate, c.orders[i]) )
             => c.result = FALSE

\* An order of one week re-validated with its own id, beside an order of the
\* other work center with the same dates.
C3_Witness ==
  /\ op = "hasOverlap"
  /\ Len(overlapCall.orders) = 2
  /\ overlapCall.orders[1].workCenterId = overlapCall.workCenterId
  /\ overlapCall.orders[1].id = overlapCall.excludeOrderId
  /\ overlapCall.orders[1].startDate = overlapCall.startDate
  /\ overlapCall.orders[1].endDate = overlapCall.endDate
  /\ IsoBefore(overlapCall.startDate, overlapCall.endDate)
  /\ overlapCall.orders[2].workCenterId # overlapCall.workCenterId
  /\ overlapCall.orders[2].startDate = overlapCall.startDate
  /\ overlapCall.orders[2].endDate = overlapCall.endDate
  /\ overlapCall.result = FALSE

\* C4: a candidate that starts on the end date of the only order of the work
\* center, or ends on its start date, does not overlap it.
C4_TouchingIsNoConflict ==
  op = "hasOverlap" =>
    LET c == overlapCall
        ofCenter == { i \in 1..Len(c.orders) : c.orders[i].workCenterId = c.workCenterId }
    IN  \A i \in ofCenter :
          (ofCenter = {i}
             /\ (c.startDate = c.orders[i].endDate \/ c.endDate = c.orders[i].startDate))
          => c.result = FALSE

\* A candidate of one week starting on the end date of an order of one week
\* that is not excluded.
C4_Witness ==
  /\ op = "hasOverlap"
  /\ Len(overlapCall.orders) = 1
  /\ overlapCall.orders[1].workCenterId = overlapCall.workCenterId
  /\ overlapCall.excludeOrderId = NoId
  /\ IsoBefore(overlapCall.orders[1].startDate, overlapCall.orders[1].endDate)
  /\ overlapCall.startDate = overlapCall.orders[1].endDate
  /\ IsoBefore(overlapCall.startDate, overlapCall.endDate)
  /\ overlapCall.result = FALSE

\* ------------------------------------------------------------------------
\* Properties of the day granularity
\* ------------------------------------------------------------------------

C22_ZoomChangeRebuilds ==
  /\ [](lifecycle # "constructed" =>
          timelineColumns =
            generateColumns(timelineRangeStartDate, timelineRangeEndDate, timelineZoom, clock))
  /\ [][timelineZoom' # timelineZoom =>
          LET range == getInitialRange(timelineZoom', clock')
          IN  /\ timelineRangeStartDate' = range.start
              /\ timelineRangeEndDate' = range.end
     ]_vars

\* C22 witness: a day timeline on its initial range after scroll extensions
\* (made at another zoom: an extension never shrinks a range).
C22_Witness ==
  /\ lifecycle = "rendered"
  /\ extensions >= 1
  /\ timelineZoom = "day"
  /\ timelineRangeStartDate = getInitialRange("day", clock).start
  /\ timelineRangeEndDate = getInitialRange("day", clock).end
  /\ timelineColumns = InitialColumns
  /\ Len(timelineColumns) = 361

\* ------------------------------------------------------------------------
\* Properties of the panel and of the modal
\* ------------------------------------------------------------------------

\* C23: every work order the panel hands over has startDate < endDate,
\* strictly: a form whose end date is on or before its start date is INVALID,
\* no payload built by onSubmit has endDate on or before startDate, and so no
\* order added or updated in the store has.
C23_SubmittedOrdersStartBeforeEnd ==
  /\ (modalRef # 0 /\ panel.form.startDate # NullDateStruct
                   /\ panel.form.endDate # NullDateStruct
                   /\ ~IsoBefore(formatToIsoDateString(panel.form.startDate),
                                 formatToIsoDateString(panel.form.endDate)))
       => panel.status = "INVALID"
  /\ \A i \in 1..Len(timers) :
       timers[i].hasPayload =>
         IsoBefore(timers[i].payload.startDate, timers[i].payload.endDate)
  /\ \A i \in 1..Len(orders) :
       orders[i].id >= randomUUID(1) => IsoBefore(orders[i].startDate, orders[i].endDate)

\* ------------------------------------------------------------------------
\* Properties of the bar position on a zero denominator
\* ------------------------------------------------------------------------

\* NaN, Infinity or -Infinity.
NotFinite(number) == number.den = 0

\* C24: calculateBarPosition called with a zero denominator (a duration of 0
\* at day or week zoom, an empty column list at month zoom) does not return a
\* position whose left or width is NaN, Infinity or -Infinity.
C24_ZeroDenominatorIsRejected ==
  (/\ op = "calculateBarPosition"
   /\ \/ barCall.zoom # "month" /\ barCall.totalTimelineDurationMs = 0
      \/ barCall.zoom = "month" /\ Len(barCall.columns) = 0)
    => /\ ~NotFinite(barCall.result.left)
       /\ ~NotFinite(barCall.result.width)

\* ------------------------------------------------------------------------
\* Properties of the store's persistence
\* ------------------------------------------------------------------------

StoreOps == {"addOrder", "updateOrder", "deleteOrder"}

\* C25: after every addOrder, updateOrder and deleteOrder the persisted list is
\* the in-memory list; loading the page returns the parsed stored list as it
\* is (an empty list included, the seed orders are not restored), so a reload
\* returns the orders present before it; the seed orders are used only when
\* the key is absent, and are then persisted, or when the content cannot be
\* parsed.
C25_PersistedListIsTheStore ==
  /\ [](op \in StoreOps => storage = persist(orders))
  /\ [][op' = "loadOrders" =>
          /\ storage.raw = "json" => orders' = storage.value /\ storage' = storage
          /\ storage.raw = "null" => orders' = SEED_ORDERS /\ storage' = persist(SEED_ORDERS)
          /\ storage.raw \in {"", "{"} => orders' = SEED_ORDERS
          /\ op # "none" => orders' = orders
     ]_vars

\* C25 witness: the page is reloaded after the last order was deleted.
C25_Witness ==
  /\ op = "loadOrders"
  /\ uuidCount > 0
  /\ orders = <<>>
  /\ storage = persist(<<>>)

\* ------------------------------------------------------------------------
\* Properties of the store operations
\* ------------------------------------------------------------------------

DistinctIds(list) ==
  \A i, j \in 1..Len(list) : list[i].id = list[j].id => i = j

\* C29: addOrder appends one order whose id is the id of no existing order
\* and leaves the existing orders as they are, in order; updateOrder keeps the
\* length, replaces exactly the orders of the given id (each by an order of
\* that id) and changes nothing when no order has it; deleteOrder removes
\* exactly the orders of the given id, the others stay in order; the ids of
\* the store stay pairwise distinct.
C29_OperationsTouchOnlyTheirTarget ==
  /\ [](op # "none" => DistinctIds(orders))
  /\ [][
          /\ op' = "addOrder" =>
              /\ Len(orders') = Len(orders) + 1
              /\ SubSeq(orders', 1, Len(orders)) = orders
              /\ \A i \in 1..Len(orders) : orders[i].id # orders'[Len(orders')].id
          /\ op' = "updateOrder" =>
              /\ Len(orders') = Len(orders)
              /\ \A i \in 1..Len(orders) :
                   IF orders[i].id = argCount'
                   THEN orders'[i].id = argCount' /\ orders'[i].name \in {"E", "F"}
                   ELSE orders'[i] = orders[i]
          /\ op' = "deleteOrder" =>
              orders' = SelectSeq(orders, LAMBDA o : o.id # argCount')
     ]_vars

\* C29 witness: an order added to a store of two is updated, the two others
\* are there still.
C29_Witness ==
  /\ op = "updateOrder"
  /\ argCount = randomUUID(1)
  /\ Len(orders) = 3
  /\ orders[3].id = argCount
  /\ orders[3].name = "E"
  /\ orders[1].id = 1
  /\ orders[2].id = 2

\* ------------------------------------------------------------------------
\* Properties of the modal's life cycle
\* ------------------------------------------------------------------------

\* C26: a result reaches only the subscriber of the modal the closing panel
\* was opened in: a close timer started by a panel that is closed already
\* neither closes a modal opened later nor hands its payload to that modal's
\* subscriber.
C26_CloseReachesOnlyItsOwnModal ==
  \A k \in 1..Len(subjects) :
    \A e \in 1..Len(subjects[k].emitted) :
      subjects[k].emitted[e].panel = k

\* C27: at most one modal is open.  modalRef and currentSubject are both null
\* or both set; a modal is created only by an open call made while no modal is
\* open, and its subject is the one that call returned; an open call made
\* while a modal is open leaves the modal, its subject and its panel as they
\* are; a subject changes (emits, completes) only while it is the subject of
\* the open modal, so the observable returned by a refused open call never
\* emits and never completes.
C27_AtMostOneModal ==
  /\ []((modalRef = 0) <=> (currentSubject = 0))
  /\ [](modalRef = currentSubject /\ modalRef <= Len(subjects))
  /\ [][
          /\ (Len(subjects') > Len(subjects) /\ modalRef # 0) =>
                /\ modalRef' = modalRef
                /\ currentSubject' = currentSubject
                /\ panel' = panel
                /\ SubSeq(subjects', 1, Len(subjects)) = subjects
                /\ subjects'[Len(subjects')].emitted = <<>>
                /\ ~subjects'[Len(subjects')].completed
          /\ (modalRef' # modalRef /\ modalRef' # 0) =>
                /\ modalRef = 0
                /\ Len(subjects') = Len(subjects) + 1
                /\ modalRef' = Len(subjects')
          /\ \A k \in 1..Len(subjects) :
                subjects'[k] # subjects[k] => k = currentSubject
     ]_vars

\* C27 witness: open was called while the first modal was open; the first
\* modal is open still and the second observable has not emitted.
C27_Witness ==
  /\ Len(subjects) = 2
  /\ modalRef = 1
  /\ currentSubject = 1
  /\ panel # NoPanel
  /\ subjects[2].emitted = <<>>
  /\ ~subjects[2].completed

\* C28: close(result) on an open modal emits result on the subject of the
\* open call that created the modal, once, and completes it; the component is
\* destroyed and the service is closed, and an open call on the closed service
\* creates a modal.  close with no modal open changes nothing.  A close with
\* an empty result leaves the store as it is.  No subject emits twice, and a
\* subject is completed exactly when it has emitted.
C28_CloseEmitsOnceAndCloses ==
  /\ [](\A k \in 1..Len(subjects) :
          /\ Len(subjects[k].emitted) <= 1
          /\ subjects[k].completed <=> Len(subjects[k].emitted) = 1)
  /\ [][
          /\ (Len(timers') < Len(timers) /\ modalRef # 0) =>
                /\ subjects'[modalRef].emitted =
                     <<[panel |-> Head(timers).panel, hasPayload |-> Head(timers).hasPayload]>>
                /\ subjects'[modalRef].completed
                /\ \A k \in 1..Len(subjects) : k # modalRef => subjects'[k] = subjects[k]
                /\ modalRef' = 0
                /\ currentSubject' = 0
                /\ panel' = NoPanel
          /\ (Len(timers') < Len(timers) /\ modalRef = 0) =>
                UNCHANGED <<modalRef, currentSubject, subjects, panel, orders, storage>>
          /\ (Len(timers') < Len(timers) /\ ~Head(timers).hasPayload) =>
                UNCHANGED <<orders, storage>>
          /\ (Len(subjects') > Len(subjects) /\ modalRef = 0) =>
                /\ modalRef' = Len(subjects')
                /\ currentSubject' = Len(subjects')
                /\ panel' # NoPanel
     ]_vars

\* C28 witness: the first modal was closed with a payload, its subject has
\* emitted and is completed, and a second modal has been opened.
C28_Witness ==
  /\ Len(subjects) = 2
  /\ subjects[1].completed
  /\ Len(subjects[1].emitted) = 1
  /\ subjects[1].emitted[1].hasPayload
  /\ modalRef = 2
  /\ panel # NoPanel

\* ------------------------------------------------------------------------
\* Properties of a submission
\* ------------------------------------------------------------------------

\* The payloads a panel of the model can submit: of a create panel (no id),
\* of an edit panel on the seed order and on an added order.
SubmittedDates ==
  { <<<<2026, 3, 20>>, <<2026, 3, 20>>>>, <<<<2026, 3, 20>>, <<2026, 3, 27>>>>,
    <<<<2026, 3, 27>>, <<2026, 3, 27>>>> }
SubmittedPayloads ==
  { [id |-> id, name |-> "A", workCenterId |-> w, startDate |-> d[1],
     endDate |-> d[2], status |-> "open"] :
      id \in {NoId, randomUUID(1)}, w \in WorkCenterIds, d \in SubmittedDates }
  \cup { [SEED_ORDERS[1] EXCEPT !.name = "A", !.startDate = d[1], !.endDate = d[2]] :
           d \in SubmittedDates }
  \cup { SEED_ORDERS[1] }

Submitted(payload) ==
  \E i \in 1..Len(timers) : timers[i].hasPayload /\ timers[i].payload = payload

Applied(payload) ==
  \E j \in 1..Len(orders) :
    IF payload.id = NoId
    THEN orders[j].id # NoId /\ [orders[j] EXCEPT !.id = NoId] = payload
    ELSE orders[j] = payload

\* C30: once onSubmit has started the close of an open panel with a payload,
\* the panel's modal is closed at last and the store holds the submitted order
\* at last (create: a new order with the payload's work center, name, status
\* and dates; edit: the order of the payload's id with the payload's values);
\* a close with a payload is started only from a valid form.
C30_SubmissionIsApplied ==
  /\ \A payload \in SubmittedPayloads : Submitted(payload) ~> Applied(payload)
  /\ \A k \in 1..MaxOpens :
       (modalRef = k /\ \E i \in 1..Len(timers) : timers[i].panel = k) ~> (modalRef # k)
  /\ [][(Len(timers') > Len(timers) /\ timers'[Len(timers')].hasPayload) =>
          panel.status = "VALID" /\ modalRef # 0
     ]_vars

====
